---- MODULE Spec2Model ----
(***************************************************************************)
(* A model of material-color-utilities-py: the colour-space conversions    *)
(* (utils/color_utils.py, utils/math_utils.py), the CAM16 appearance model *)
(* (hct/cam16.py) and the blend operations (blend/blend.py).               *)
(*                                                                         *)
(* The library is a set of pure functions.  Each function is an operator   *)
(* of this module; the state machine draws a call's arguments from bounded *)
(* sets, applies the function and records the call in the variable "call". *)
(*                                                                         *)
(* A 32-bit ARGB word is the pair <<hi, lo>> of its 16-bit halves          *)
(* (hi = alpha*256 + red, lo = green*256 + blue): TLC's integers are       *)
(* 32-bit signed and cannot hold 0xFFFFFFFF.                               *)
(***************************************************************************)
EXTENDS Integers, Sequences, FiniteSets, TLC

VARIABLES pc, call

vars == <<pc, call>>

(***************************************************************************)
(* Bounds of the model.                                                    *)
(***************************************************************************)
\* Channel values are drawn from MaxLevel+1 evenly spaced levels of 0..255.
MaxLevel == 5

Levels == {(255 * i) \div MaxLevel : i \in 0..MaxLevel}

\* The colours handed to the CAM16 functions have MaxCamLevel+1 levels.
MaxCamLevel == 3
\* the number of hues tried in Blend.harmonize
MaxHue == 24
\* the levels per channel of a blended colour, less one
MaxBlendLevel == 1
\* the steps of the search over J in Hct.from_hct
MaxJSteps == 14
\* the steps of the search over the chroma in Hct.from_hct
MaxChromaSteps == 4
\* the turns around the circle of the degree values tried
MaxTurns == 2
\* the largest argument of clamp_int tried
MaxClamp == 2
\* the length of the longest of the short hex strings tried
MaxHexLen == 4

\* The entries of the row vectors handed to the matrix products run up to MaxEntry.
MaxEntry == 1

CamLevels == {(255 * i) \div MaxCamLevel : i \in 0..MaxCamLevel}

(***************************************************************************)
(* Floating-point numbers.  A Python float is modelled by a decimal        *)
(* floating-point number <<m, e>> of value m * 10^e whose mantissa m has   *)
(* exactly 8 decimal digits (or is 0, with e = 0).  Every operation rounds *)
(* its exact result to 8 digits, as IEEE arithmetic rounds to 53 bits; all *)
(* intermediate integers stay within TLC's 32-bit range.                   *)
(***************************************************************************)
SeqPow10 == <<1, 10, 100, 1000, 10000, 100000, 1000000, 10000000,
              100000000, 1000000000>>

Pow10(k) == SeqPow10[k + 1]

IAbs(n) == IF n < 0 THEN -n ELSE n

ISign(n) == IF n < 0 THEN -1 ELSE IF n = 0 THEN 0 ELSE 1

NumDigits(n) ==
    IF n < 10000
    THEN (IF n < 100 THEN (IF n < 10 THEN 1 ELSE 2)
                     ELSE (IF n < 1000 THEN 3 ELSE 4))
    ELSE IF n < 100000000
         THEN (IF n < 1000000 THEN (IF n < 100000 THEN 5 ELSE 6)
                              ELSE (IF n < 10000000 THEN 7 ELSE 8))
         ELSE (IF n < 1000000000 THEN 9 ELSE 10)

\* n / 10^k rounded to the nearest integer, for n >= 0 and k >= 0
RoundDiv(n, k) ==
    IF k = 0 THEN n
    ELSE IF k >= 10 THEN 0
    ELSE n \div Pow10(k) + (IF (n % Pow10(k)) \div 5 >= Pow10(k - 1) THEN 1 ELSE 0)

\* the float nearest to m * 10^e, for any 32-bit integer m
\* m of more than 8 digits: q is |m| rounded to 8 digits, d the digits of m
NormRounded(m, e, d, q) ==
    IF q = 100000000 THEN <<ISign(m) * 10000000, e + d - 7>>
    ELSE <<ISign(m) * q, e + d - 8>>

NormDigits(m, e, d) ==
    IF d > 8 THEN NormRounded(m, e, d, RoundDiv(IAbs(m), d - 8))
    ELSE <<m * Pow10(8 - d), e - (8 - d)>>

Norm(m, e) == IF m = 0 THEN <<0, 0>> ELSE NormDigits(m, e, NumDigits(IAbs(m)))

\* the decimal literal m * 10^e
Dec(m, e) == Norm(m, e)

FromInt(n) == Norm(n, 0)

Zero == <<0, 0>>
One == Dec(1, 0)

Neg(a) == <<-a[1], a[2]>>

Abs(a) == <<IAbs(a[1]), a[2]>>

IsZero(a) == a[1] = 0

\* the float r >= 0 with the sign sg
Signed(sg, r) == <<sg * r[1], r[2]>>

Mul(a, b) ==
    IF a[1] = 0 \/ b[1] = 0 THEN Zero
    ELSE LET x == IAbs(a[1])
             y == IAbs(b[1])
             ah == x \div 10000
             al == x % 10000
             bh == y \div 10000
             bl == y % 10000
             \* floor(x * y / 10^7), from the four partial products
         IN  Signed(ISign(a[1]) * ISign(b[1]),
                    Norm(ah * bh * 10 + (ah * bl + al * bh + (al * bl) \div 10000) \div 1000,
                         a[2] + b[2] + 7))

\* the next k decimal digits of r / y, for 0 <= r < y
RECURSIVE LongDiv(_, _, _)
LongDiv(r, y, k) ==
    IF k = 0 THEN 0
    ELSE ((r * 10) \div y) * Pow10(k - 1) + LongDiv((r * 10) % y, y, k - 1)

\* a / b, for b # 0
Div(a, b) ==
    IF a[1] = 0 THEN Zero
    ELSE LET x == IAbs(a[1])
             y == IAbs(b[1])
         IN  Signed(ISign(a[1]) * ISign(b[1]),
                    Norm((x \div y) * 100000000 + LongDiv(x % y, y, 8),
                         a[2] - b[2] - 8))

\* a + b for a[2] >= b[2], with one guard digit
AddOrdered(a, b) ==
    IF a[2] - b[2] > 9 THEN a
    ELSE Norm(IF a[2] = b[2] THEN a[1] + b[1]
              ELSE a[1] * 10 + ISign(b[1]) * RoundDiv(IAbs(b[1]), a[2] - b[2] - 1),
              IF a[2] = b[2] THEN a[2] ELSE a[2] - 1)

Add(a, b) ==
    IF a[1] = 0 THEN b
    ELSE IF b[1] = 0 THEN a
    ELSE AddOrdered(IF a[2] >= b[2] THEN a ELSE b, IF a[2] >= b[2] THEN b ELSE a)

Sub(a, b) == Add(a, Neg(b))

Lt(a, b) == Sub(a, b)[1] < 0

Le(a, b) == Sub(a, b)[1] <= 0

\* |a - b| <= tol
Near(a, b, tol) == Le(Abs(Sub(a, b)), tol)

\* Python's round(x): the nearest integer, ties to the even one.  Integers
\* beyond 10^9 in magnitude are written as +/-10^9.
Round(a) ==
    IF a[1] = 0 THEN 0
    ELSE IF a[2] >= 0
         THEN (IF a[2] > 1 THEN ISign(a[1]) * 1000000000 ELSE a[1] * Pow10(a[2]))
    ELSE IF -a[2] > 8 THEN 0
    ELSE LET p == Pow10(-a[2])
             q == IAbs(a[1]) \div p
             r == IAbs(a[1]) % p
             up == r * 2 > p \/ (r * 2 = p /\ q % 2 = 1)
         IN  ISign(a[1]) * (q + (IF up THEN 1 ELSE 0))

(***************************************************************************)
(* The functions of Python's math module that the source calls, computed   *)
(* by range reduction and power series in the arithmetic above.  The       *)
(* series lengths are bounds of the model: each is long enough for the     *)
(* truncation error to lie below the 8-digit rounding error.               *)
(***************************************************************************)
\* Newton steps of Sqrt
SqrtSteps == 6
\* terms of the series of Ln, Exp, Sin/Cos and Atan
LnTerms == 13
ExpTerms == 16
TrigTerms == 10
AtanTerms == 9

Two == Dec(2, 0)
Half == Dec(5, -1)
Ln10 == Dec(230258509, -8)
Pi == Dec(314159265, -8)
TwoPi == Dec(628318531, -8)
HalfPi == Dec(157079633, -8)
Sqrt10 == Dec(316227766, -8)

RECURSIVE Newton(_, _, _)
Newton(x, g, k) ==
    IF k = 0 THEN g ELSE Newton(x, Mul(Half, Add(g, Div(x, g))), k - 1)

\* math.sqrt(x), for x >= 0
Sqrt(x) ==
    IF x[1] = 0 THEN Zero
    ELSE LET ee == x[2] + 7  \* x = v * 10^ee with 1 <= v < 10
         IN  IF ee % 2 = 0 THEN Newton(x, Dec(2, ee \div 2), SqrtSteps)
             ELSE Newton(x, Dec(6, (ee - 1) \div 2), SqrtSteps)

\* z + z^3/3 + z^5/5 + ... (k terms), term = z^n
RECURSIVE LnSeries(_, _, _, _)
LnSeries(z2, term, n, k) ==
    IF k = 0 THEN Zero
    ELSE Add(Div(term, FromInt(n)), LnSeries(z2, Mul(term, z2), n + 2, k - 1))

\* math.log(x), for x > 0: x = v * 10^k with 1/sqrt(10) <= v < sqrt(10),
\* ln v = 2 atanh((v - 1) / (v + 1))
LnAtanh(z, k) ==
    Add(Mul(Two, LnSeries(Mul(z, z), z, 1, LnTerms)), Mul(FromInt(k), Ln10))

LnScaled(v, k) == LnAtanh(Div(Sub(v, One), Add(v, One)), k)

LnSplit(x, big) ==
    LnScaled(<<x[1], IF big THEN -8 ELSE -7>>, x[2] + (IF big THEN 8 ELSE 7))

Ln(x) == LnSplit(x, ~Lt(<<x[1], -7>>, Sqrt10))

\* 1 + r + r^2/2! + ... (k terms), term = r^(n-1)/(n-1)!
RECURSIVE ExpSeries(_, _, _, _)
ExpSeries(r, term, n, k) ==
    IF k = 0 THEN Zero
    ELSE Add(term, ExpSeries(r, Div(Mul(term, r), FromInt(n)), n + 1, k - 1))

\* math.exp(x): x = k * ln 10 + r with |r| <= ln(10)/2
ExpShift(s, k) == <<s[1], s[2] + k>>

ExpReduced(x, k) ==
    ExpShift(ExpSeries(Sub(x, Mul(FromInt(k), Ln10)), One, 1, ExpTerms), k)

Exp(x) == IF x[1] = 0 THEN One ELSE ExpReduced(x, Round(Div(x, Ln10)))

\* math.pow(x, p) and x ** p, for x >= 0
Pow(x, p) == IF x[1] = 0 THEN Zero ELSE Exp(Mul(p, Ln(x)))

\* term - term*x^2/(n(n+1)) + ... (k terms)
RECURSIVE TrigSeries(_, _, _, _)
TrigSeries(x2, term, n, k) ==
    IF k = 0 THEN Zero
    ELSE Add(term, TrigSeries(x2, Neg(Div(Mul(term, x2), FromInt(n * (n + 1)))),
                              n + 2, k - 1))

\* x reduced to [-pi, pi]
ReduceAngle(x) == Sub(x, Mul(FromInt(Round(Div(x, TwoPi))), TwoPi))

\* r in [-pi, pi] folded into [-pi/2, pi/2]: sin f = sin r, cos f = -cos r
\* when folded
Folded(r) == r[1] # 0 /\ (r[2] > -8 \/ (r[2] = -8 /\ IAbs(r[1]) > HalfPi[1]))

Fold(r) ==
    IF ~Folded(r) THEN r ELSE IF r[1] > 0 THEN Sub(Pi, r) ELSE Sub(Neg(Pi), r)

SinSeries(f) == TrigSeries(Mul(f, f), f, 2, TrigTerms)

CosSeries(f) == TrigSeries(Mul(f, f), One, 1, TrigTerms)

SinReduced(r) == SinSeries(Fold(r))

CosReduced(r) == IF Folded(r) THEN Neg(CosSeries(Fold(r))) ELSE CosSeries(Fold(r))

\* math.sin(x)
Sin(x) == SinReduced(ReduceAngle(x))

\* math.cos(x)
Cos(x) == CosReduced(ReduceAngle(x))

\* u - u^3/3 + u^5/5 - ... (k terms)
RECURSIVE AtanSeries(_, _, _, _)
AtanSeries(x2, term, n, k) ==
    IF k = 0 THEN Zero
    ELSE Add(Div(term, FromInt(n)), AtanSeries(x2, Neg(Mul(term, x2)), n + 2, k - 1))

\* tan(atan(t) / 2)
HalfAngle(t) == Div(t, Add(One, Sqrt(Add(One, Mul(t, t)))))

\* atan(t) for 0 <= t <= 1
AtanSmall(u) == Mul(Dec(4, 0), AtanSeries(Mul(u, u), u, 1, AtanTerms))

Atan01(t) == AtanSmall(HalfAngle(HalfAngle(t)))

\* atan(t) for t >= 0
AtanPos(t) ==
    LET inv == ~Le(t, One)
        a == Atan01(IF inv THEN Div(One, t) ELSE t)
    IN  IF inv THEN Sub(HalfPi, a) ELSE a

\* the angle of (x, y), x # 0, from a = atan(|y / x|)
AtanQuadrant(y, x, a) ==
    IF x[1] > 0 THEN (IF y[1] >= 0 THEN a ELSE Neg(a))
    ELSE (IF y[1] >= 0 THEN Sub(Pi, a) ELSE Sub(a, Pi))

\* math.atan2(y, x)
Atan2(y, x) ==
    IF x[1] = 0
    THEN (IF y[1] = 0 THEN Zero ELSE IF y[1] > 0 THEN HalfPi ELSE Neg(HalfPi))
    ELSE AtanQuadrant(y, x, AtanPos(Abs(Div(y, x))))

(***************************************************************************)
(* 32-bit words and the shift/mask expressions of color_utils.py.          *)
(***************************************************************************)
Word(hi, lo) == <<hi, lo>>

\* argb >> n & 255, for the shifts the source uses (24, 16, 8, 0)
ShiftMask255(argb, n) ==
    CASE n = 24 -> (argb[1] \div 256) % 256
      [] n = 16 -> argb[1] % 256
      [] n = 8  -> (argb[2] \div 256) % 256
      [] n = 0  -> argb[2] % 256

\* val >> n if val >= 0 else (val + 0x100000000) >> n ; every caller passes
\* a value built from 255 << 24 | ..., which is non-negative, and n = 0
rshift(val, n) ==
    IF n = 0 THEN val
    ELSE IF n < 16
         THEN Word(val[1] \div (2 ^ n),
                   (val[1] % (2 ^ n)) * (2 ^ (16 - n)) + val[2] \div (2 ^ n))
    ELSE Word(0, val[1] \div (2 ^ (n - 16)))

\* argb_from_rgb with the green and blue bytes exchanged
argb_from_rgb_swapped(red, green, blue) ==
    rshift(Word(255 * 256 + (red % 256), (blue % 256) * 256 + (green % 256)), 0)

\* 255 << 24 | (red & 255) << 16 | (green & 255) << 8 | blue & 255
argb_from_rgb(red, green, blue) ==
    rshift(Word(255 * 256 + (red % 256), (green % 256) * 256 + (blue % 256)), 0)

alpha_from_argb(argb) == ShiftMask255(argb, 24)
red_from_argb(argb)   == ShiftMask255(argb, 16)
green_from_argb(argb) == ShiftMask255(argb, 8)
blue_from_argb(argb)  == ShiftMask255(argb, 0)

(***************************************************************************)
(* material_color_utilities_python/utils/color_utils.py: the camelCase     *)
(* variant of the same packing and unpacking functions.                    *)
(***************************************************************************)
argbFromRgb(red, green, blue) ==
    rshift(Word(255 * 256 + (red % 256), (green % 256) * 256 + (blue % 256)), 0)

alphaFromArgb(argb) == ShiftMask255(argb, 24)
redFromArgb(argb)   == ShiftMask255(argb, 16)
greenFromArgb(argb) == ShiftMask255(argb, 8)
blueFromArgb(argb)  == ShiftMask255(argb, 0)

(***************************************************************************)
(* utils/math_utils.py                                                     *)
(***************************************************************************)
\* signum(num): -1, 0 or 1
signum(num) == FromInt(ISign(num[1]))

clamp_int(min, max, input) ==
    IF input < min THEN min
    ELSE IF input > max THEN max
    ELSE input

\* clamp_double: the same comparisons on floats
clamp_double(min, max, input) ==
    IF Lt(input, min) THEN min
    ELSE IF Lt(max, input) THEN max
    ELSE input

\* sanitize_degrees_int: Python's % with a positive modulus is never negative
sanitize_degrees_int(degrees) ==
    IF (degrees % 360) < 0 THEN (degrees % 360) + 360 ELSE degrees % 360

\* math.floor(a), for |a| < 10^9
Floor(a) ==
    IF a[1] = 0 THEN 0
    ELSE IF a[2] >= 0 THEN a[1] * Pow10(a[2])
    ELSE IF -a[2] > 8 THEN (IF a[1] > 0 THEN 0 ELSE -1)
    ELSE IF a[1] > 0 THEN a[1] \div Pow10(-a[2])
    ELSE -((-a[1] + Pow10(-a[2]) - 1) \div Pow10(-a[2]))

\* a % n for a float a and an integer n > 0: the result has the sign of n
FMod(a, n) == Sub(a, FromInt(n * Floor(Div(a, FromInt(n)))))

\* min(a, b) of Python
FMin(a, b) == IF Lt(b, a) THEN b ELSE a

\* the body of sanitize_degrees_double after degrees = degrees % 360.0
sanitize_degrees_double_mod(degrees) ==
    IF degrees[1] < 0 THEN Add(degrees, Dec(360, 0)) ELSE degrees

sanitize_degrees_double(degrees) == sanitize_degrees_double_mod(FMod(degrees, 360))

\* difference_degrees without the inner np.abs
difference_degrees_directed(a, b) ==
    Sub(Dec(180, 0), Abs(Sub(Sub(a, b), Dec(180, 0))))

\* 180.0 - np.abs(np.abs(a - b) - 180.0)
difference_degrees(a, b) ==
    Sub(Dec(180, 0), Abs(Sub(Abs(Sub(a, b)), Dec(180, 0))))

\* np.dot(row, matrix) of a 1-D row and a 2-D matrix: the row vector times
\* the matrix, component i = sum over j of row[j] * matrix[j][i]
matrix_multiply(row, matrix) ==
    [i \in 1..3 |-> Add(Add(Mul(row[1], matrix[1][i]), Mul(row[2], matrix[2][i])),
                        Mul(row[3], matrix[3][i]))]

\* the camelCase variant: component i = sum over j of row[j] * matrix[i][j]
matrixMultiply(row, matrix) ==
    [i \in 1..3 |-> Add(Add(Mul(row[1], matrix[i][1]), Mul(row[2], matrix[i][2])),
                        Mul(row[3], matrix[i][3]))]

(***************************************************************************)
(* utils/color_utils.py: conversions between ARGB, XYZ and L*.  Decimal    *)
(* literals of the source are written with their first 9 digits.           *)
(***************************************************************************)
SRGB_TO_XYZ ==
    << <<Dec(41233895, -8), Dec(35762064, -8), Dec(18051042, -8)>>,
       <<Dec(2126, -4),     Dec(7152, -4),     Dec(722, -4)>>,
       <<Dec(1932141, -8),  Dec(11916382, -8), Dec(95034478, -8)>> >>

XYZ_TO_SRGB ==
    << <<Dec(324137748, -8),  Dec(-153766524, -8), Dec(-498853668, -9)>>,
       <<Dec(-969145251, -9), Dec(187588535, -8),  Dec(415658562, -10)>>,
       <<Dec(556209369, -10), Dec(-203955246, -9), Dec(105717991, -8)>> >>

WHITE_POINT_D65 == <<Dec(95047, -3), Dec(100, 0), Dec(108883, -3)>>

\* the body of linearized after normalized = rgbComponent / 255.0
linearized_normalized(normalized) ==
    IF Le(normalized, Dec(40449936, -9))
    THEN Mul(Div(normalized, Dec(1292, -2)), Dec(100, 0))
    ELSE Mul(Pow(Div(Add(normalized, Dec(55, -3)), Dec(1055, -3)), Dec(24, -1)),
             Dec(100, 0))

linearized(rgbComponent) ==
    linearized_normalized(Div(FromInt(rgbComponent), Dec(255, 0)))

\* the local variable delinearized of delinearized, from normalized
delinearized_normalized(normalized) ==
    IF Le(normalized, Dec(31308, -7))
    THEN Mul(normalized, Dec(1292, -2))
    ELSE Sub(Mul(Dec(1055, -3), Pow(normalized, Div(One, Dec(24, -1)))), Dec(55, -3))

\* the value handed to clamp_int: round(delinearized * 255.0)
delinearized_rounded(rgbComponent) ==
    Round(Mul(delinearized_normalized(Div(rgbComponent, Dec(100, 0))), Dec(255, 0)))

\* delinearized without the call of clamp_int
delinearized_unclamped(rgbComponent) == delinearized_rounded(rgbComponent)

delinearized(rgbComponent) == clamp_int(0, 255, delinearized_rounded(rgbComponent))

argb_from_xyz(x, y, z) ==
    argb_from_rgb(
        delinearized(Add(Add(Mul(XYZ_TO_SRGB[1][1], x), Mul(XYZ_TO_SRGB[1][2], y)),
                         Mul(XYZ_TO_SRGB[1][3], z))),
        delinearized(Add(Add(Mul(XYZ_TO_SRGB[2][1], x), Mul(XYZ_TO_SRGB[2][2], y)),
                         Mul(XYZ_TO_SRGB[2][3], z))),
        delinearized(Add(Add(Mul(XYZ_TO_SRGB[3][1], x), Mul(XYZ_TO_SRGB[3][2], y)),
                         Mul(XYZ_TO_SRGB[3][3], z))))

xyz_from_argb(argb) ==
    matrix_multiply(<<linearized(red_from_argb(argb)),
                      linearized(green_from_argb(argb)),
                      linearized(blue_from_argb(argb))>>, SRGB_TO_XYZ)

\* lab_invf: ft3 if ft3 > e else (116 * ft - 16) / kappa
lab_invf_cube(ft, ft3) ==
    IF Lt(Div(Dec(216, 0), Dec(24389, 0)), ft3) THEN ft3
    ELSE Div(Sub(Mul(Dec(116, 0), ft), Dec(16, 0)), Div(Dec(24389, 0), Dec(27, 0)))

lab_invf(ft) == lab_invf_cube(ft, Mul(Mul(ft, ft), ft))

\* the body of argd_from_lab after fy = (l + 16.0) / 116.0
argd_from_lab_fy(a, b, fy) ==
    argb_from_xyz(Mul(lab_invf(Add(Div(a, Dec(500, 0)), fy)), WHITE_POINT_D65[1]),
                  Mul(lab_invf(fy), WHITE_POINT_D65[2]),
                  Mul(lab_invf(Sub(fy, Div(b, Dec(200, 0)))), WHITE_POINT_D65[3]))

argd_from_lab(l, a, b) ==
    argd_from_lab_fy(a, b, Div(Add(l, Dec(16, 0)), Dec(116, 0)))

\* the body of argb_From_lstar after fy, with cube = fy * fy * fy
argb_From_lstar_cube(lstar, cube) ==
    LET kappa == Div(Dec(24389, 0), Dec(27, 0))
        epsilon == Div(Dec(216, 0), Dec(24389, 0))
        y == IF Lt(Dec(8, 0), lstar) THEN cube ELSE Div(lstar, kappa)
        x == IF Lt(epsilon, cube) THEN cube ELSE Div(lstar, kappa)
        z == IF Lt(epsilon, cube) THEN cube ELSE Div(lstar, kappa)
    IN  argb_from_xyz(Mul(x, WHITE_POINT_D65[1]), Mul(y, WHITE_POINT_D65[2]),
                      Mul(z, WHITE_POINT_D65[3]))

argb_From_lstar_fy(lstar, fy) == argb_From_lstar_cube(lstar, Mul(Mul(fy, fy), fy))

argb_From_lstar(lstar) ==
    argb_From_lstar_fy(lstar, Div(Add(lstar, Dec(16, 0)), Dec(116, 0)))

\* the body of lstar_from_argb after y = xyz_from_argb(argb)[1] / 100.0
lstar_from_y(y) ==
    IF Le(y, Div(Dec(216, 0), Dec(24389, 0)))
    THEN Mul(Div(Dec(24389, 0), Dec(27, 0)), y)
    ELSE Sub(Mul(Dec(116, 0), Pow(y, Div(One, Dec(3, 0)))), Dec(16, 0))

lstar_from_argb(argb) == lstar_from_y(Div(xyz_from_argb(argb)[2], Dec(100, 0)))

\* the camelCase variant of xyz_from_argb
xyzFromArgb(argb) ==
    matrixMultiply(<<linearized(redFromArgb(argb)),
                     linearized(greenFromArgb(argb)),
                     linearized(blueFromArgb(argb))>>, SRGB_TO_XYZ)

\* the camelCase variant of lstar_from_argb
lstarFromArgb(argb) == lstar_from_y(Div(xyzFromArgb(argb)[2], Dec(100, 0)))

y_from_lstar(lstar) ==
    IF Lt(Dec(8, 0), lstar)
    THEN Mul(Pow(Div(Add(lstar, Dec(16, 0)), Dec(116, 0)), Dec(3, 0)), Dec(100, 0))
    ELSE Mul(Div(lstar, Div(Dec(24389, 0), Dec(27, 0))), Dec(100, 0))

(***************************************************************************)
(* hct/viewing_conditions.py is not among the source files: the viewing    *)
(* conditions are built as the specification's section 4.2 describes, in   *)
(* steps that each extend a record of the values computed so far.          *)
(***************************************************************************)
\* the cone responses of the white point, the unclamped adaptation degree,
\* k and the background luminance ratio n
ViewingConditions_white(white_point, adapting_luminance, background_lstar, f, c, nc, discounting_illuminant) ==
    [c |-> c, nc |-> nc,
     la5 |-> Mul(Dec(5, 0), adapting_luminance),
     rW |-> Add(Add(Mul(white_point[1], Dec(401288, -6)),
                    Mul(white_point[2], Dec(650173, -6))),
                Mul(white_point[3], Dec(-51461, -6))),
     gW |-> Add(Add(Mul(white_point[1], Dec(-250268, -6)),
                    Mul(white_point[2], Dec(1204414, -6))),
                Mul(white_point[3], Dec(45854, -6))),
     bW |-> Add(Add(Mul(white_point[1], Dec(-2079, -6)),
                    Mul(white_point[2], Dec(48952, -6))),
                Mul(white_point[3], Dec(953127, -6))),
     d0 |-> IF discounting_illuminant THEN One
            ELSE Mul(f, Sub(One, Mul(Div(One, Dec(36, -1)),
                     Exp(Div(Sub(Neg(adapting_luminance), Dec(42, 0)), Dec(92, 0)))))),
     k |-> Div(One, Add(Mul(Dec(5, 0), adapting_luminance), One)),
     n |-> Div(y_from_lstar(background_lstar), white_point[2])]

\* d clamped to [0, 1], k^4, z and nbb
ViewingConditions_degree(s) ==
    s @@ [d |-> IF Lt(One, s.d0) THEN One ELSE IF Lt(s.d0, Zero) THEN Zero ELSE s.d0,
          k4 |-> Mul(Mul(s.k, s.k), Mul(s.k, s.k)),
          z |-> Add(Dec(148, -2), Sqrt(s.n)),
          nbb |-> Div(Dec(725, -3), Pow(s.n, Dec(2, -1)))]

\* rgbD and fl
ViewingConditions_adaptation(s) ==
    s @@ [rgbD |-> <<Sub(Add(Mul(s.d, Div(Dec(100, 0), s.rW)), One), s.d),
                     Sub(Add(Mul(s.d, Div(Dec(100, 0), s.gW)), One), s.d),
                     Sub(Add(Mul(s.d, Div(Dec(100, 0), s.bW)), One), s.d)>>,
          fl |-> Add(Mul(Mul(Dec(2, -1), s.k4), s.la5),
                     Mul(Mul(Dec(1, -1), Mul(Sub(One, s.k4), Sub(One, s.k4))),
                         Pow(s.la5, Div(One, Dec(3, 0)))))]

\* the compressed responses of the adapted white, before the division
ViewingConditions_factor(s) ==
    s @@ [rgbAF |-> <<Pow(Div(Mul(Mul(s.fl, s.rgbD[1]), s.rW), Dec(100, 0)), Dec(42, -2)),
                      Pow(Div(Mul(Mul(s.fl, s.rgbD[2]), s.gW), Dec(100, 0)), Dec(42, -2)),
                      Pow(Div(Mul(Mul(s.fl, s.rgbD[3]), s.bW), Dec(100, 0)), Dec(42, -2))>>]

ViewingConditions_response(s) ==
    s @@ [rgbA |-> [i \in 1..3 |-> Div(Mul(Dec(400, 0), s.rgbAF[i]),
                                       Add(s.rgbAF[i], Dec(2713, -2)))]]

\* the fields of the finished ViewingConditions object
ViewingConditions_fields(s) ==
    [n |-> s.n,
     aw |-> Mul(Add(Add(Mul(Two, s.rgbA[1]), s.rgbA[2]), Mul(Dec(5, -2), s.rgbA[3])),
                s.nbb),
     nbb |-> s.nbb, ncb |-> s.nbb, c |-> s.c, nc |-> s.nc,
     rgbD |-> s.rgbD, fl |-> s.fl, fLRoot |-> Pow(s.fl, Dec(25, -2)), z |-> s.z]

ViewingConditions_make(white_point, adapting_luminance, background_lstar, f, c, nc, discounting_illuminant) ==
    ViewingConditions_fields(ViewingConditions_response(ViewingConditions_factor(
        ViewingConditions_adaptation(ViewingConditions_degree(
            ViewingConditions_white(white_point, adapting_luminance, background_lstar,
                                    f, c, nc, discounting_illuminant))))))

\* ViewingConditions.DEFAULT: average surround (f = 1.0, c = 0.69, nc = 1.0),
\* adapting luminance (200/pi) * yFromLstar(50) / 100, background L* 50
ViewingConditions_DEFAULT ==
    ViewingConditions_make(WHITE_POINT_D65,
        Div(Mul(Div(Dec(200, 0), Pi), y_from_lstar(Dec(50, 0))), Dec(100, 0)),
        Dec(50, 0), One, Dec(69, -2), One, FALSE)

(***************************************************************************)
(* hct/cam16.py.  The long methods are written as a chain of steps, each   *)
(* extending a record s of the method's local variables computed so far.   *)
(***************************************************************************)
\* a raised Python exception, in place of a function's result
Raised(kind) == [raised |-> kind]

IsRaised(v) == "raised" \in DOMAIN v

\* Cam16.__init__
Cam16(hue, chroma, j, q, m, s, jstar, astar, bstar) ==
    [hue |-> hue, chroma |-> chroma, j |-> j, q |-> q, m |-> m, s |-> s,
     jstar |-> jstar, astar |-> astar, bstar |-> bstar]

\* the last line of Cam16.distance
Cam16_distance_dE(dEPrime) == Mul(Dec(141, -2), Pow(dEPrime, Dec(63, -2)))

Cam16_distance_squares(dJ, dA, dB) ==
    Cam16_distance_dE(Sqrt(Add(Add(Mul(dJ, dJ), Mul(dA, dA)), Mul(dB, dB))))

\* Cam16.distance with dA taken against the other object's bstar
Cam16_distance_crossed(self, other) ==
    Cam16_distance_squares(Sub(self.jstar, other.jstar),
                           Sub(self.astar, other.bstar),
                           Sub(self.bstar, other.bstar))

\* Cam16.distance
Cam16_distance(self, other) ==
    Cam16_distance_squares(Sub(self.jstar, other.jstar),
                           Sub(self.astar, other.astar),
                           Sub(self.bstar, other.bstar))

\* from_int_in_viewing_conditions: redL, greenL, blueL
Cam16_from_int_linear(argb, vc) ==
    [vc |-> vc,
     redL |-> linearized(ShiftMask255(argb, 16)),
     greenL |-> linearized(ShiftMask255(argb, 8)),
     blueL |-> linearized(ShiftMask255(argb, 0))]

\* x, y, z
Cam16_from_int_xyz(s) ==
    s @@ [x |-> Add(Add(Mul(Dec(41233895, -8), s.redL), Mul(Dec(35762064, -8), s.greenL)),
                    Mul(Dec(18051042, -8), s.blueL)),
          y |-> Add(Add(Mul(Dec(2126, -4), s.redL), Mul(Dec(7152, -4), s.greenL)),
                    Mul(Dec(722, -4), s.blueL)),
          z |-> Add(Add(Mul(Dec(1932141, -8), s.redL), Mul(Dec(11916382, -8), s.greenL)),
                    Mul(Dec(95034478, -8), s.blueL))]

\* rC, gC, bC and rD, gD, bD
Cam16_from_int_discounted(s) ==
    s @@ [rD |-> Mul(s.vc.rgbD[1],
                     Sub(Add(Mul(Dec(401288, -6), s.x), Mul(Dec(650173, -6), s.y)),
                         Mul(Dec(51461, -6), s.z))),
          gD |-> Mul(s.vc.rgbD[2],
                     Add(Add(Mul(Dec(-250268, -6), s.x), Mul(Dec(1204414, -6), s.y)),
                         Mul(Dec(45854, -6), s.z))),
          bD |-> Mul(s.vc.rgbD[3],
                     Add(Add(Mul(Dec(-2079, -6), s.x), Mul(Dec(48952, -6), s.y)),
                         Mul(Dec(953127, -6), s.z)))]

\* rAF, gAF, bAF
Cam16_from_int_factor(s) ==
    s @@ [rAF |-> Pow(Div(Mul(s.vc.fl, Abs(s.rD)), Dec(100, 0)), Dec(42, -2)),
          gAF |-> Pow(Div(Mul(s.vc.fl, Abs(s.gD)), Dec(100, 0)), Dec(42, -2)),
          bAF |-> Pow(Div(Mul(s.vc.fl, Abs(s.bD)), Dec(100, 0)), Dec(42, -2))]

\* rA, gA, bA
Cam16_from_int_adapted(s) ==
    s @@ [rA |-> Div(Mul(Mul(signum(s.rD), Dec(400, 0)), s.rAF), Add(s.rAF, Dec(2713, -2))),
          gA |-> Div(Mul(Mul(signum(s.gD), Dec(400, 0)), s.gAF), Add(s.gAF, Dec(2713, -2))),
          bA |-> Div(Mul(Mul(signum(s.bD), Dec(400, 0)), s.bAF), Add(s.bAF, Dec(2713, -2)))]

\* a, b, u, p2
Cam16_from_int_opponent(s) ==
    s @@ [a |-> Div(Add(Add(Mul(Dec(11, 0), s.rA), Mul(Dec(-12, 0), s.gA)), s.bA),
                    Dec(11, 0)),
          b |-> Div(Sub(Add(s.rA, s.gA), Mul(Two, s.bA)), Dec(9, 0)),
          u |-> Div(Add(Add(Mul(Dec(20, 0), s.rA), Mul(Dec(20, 0), s.gA)),
                        Mul(Dec(21, 0), s.bA)), Dec(20, 0)),
          p2 |-> Div(Add(Add(Mul(Dec(40, 0), s.rA), Mul(Dec(20, 0), s.gA)), s.bA),
                     Dec(20, 0))]

\* atan2, atanDegrees, ac and j
Cam16_from_int_lightness(s) ==
    s @@ [atanDegrees |-> Div(Mul(Atan2(s.b, s.a), Dec(180, 0)), Pi),
          j |-> Mul(Dec(100, 0), Pow(Div(Mul(s.p2, s.vc.nbb), s.vc.aw),
                                     Mul(s.vc.c, s.vc.z)))]

\* hue, and sqrt(j / 100.0), which the method computes for q and for c
Cam16_from_int_hue(s) ==
    s @@ [hue |-> IF Lt(s.atanDegrees, Zero) THEN Add(s.atanDegrees, Dec(360, 0))
                  ELSE IF ~Lt(s.atanDegrees, Dec(360, 0))
                       THEN Sub(s.atanDegrees, Dec(360, 0))
                  ELSE s.atanDegrees,
          jRoot |-> Sqrt(Div(s.j, Dec(100, 0)))]

\* hueRadians, q, huePrime, eHue, p1, t and alpha
Cam16_from_int_alpha(s) ==
    s @@ [hueRadians |-> Div(Mul(s.hue, Pi), Dec(180, 0)),
          q |-> Mul(Mul(Mul(Div(Dec(4, 0), s.vc.c), s.jRoot), Add(s.vc.aw, Dec(4, 0))),
                    s.vc.fLRoot),
          alpha |->
              LET huePrime == IF Lt(s.hue, Dec(2014, -2)) THEN Add(s.hue, Dec(360, 0))
                              ELSE s.hue
                  eHue == Mul(Dec(25, -2),
                              Add(Cos(Add(Div(Mul(huePrime, Pi), Dec(180, 0)), Two)),
                                  Dec(38, -1)))
                  p1 == Mul(Mul(Mul(Div(Dec(50000, 0), Dec(13, 0)), eHue), s.vc.nc),
                            s.vc.ncb)
                  t == Div(Mul(p1, Sqrt(Add(Mul(s.a, s.a), Mul(s.b, s.b)))),
                           Add(s.u, Dec(305, -3)))
              IN  Mul(Pow(t, Dec(9, -1)),
                      Pow(Sub(Dec(164, -2), Pow(Dec(29, -2), s.vc.n)), Dec(73, -2)))]

\* c and s
Cam16_from_int_chroma(s) ==
    s @@ [c |-> Mul(s.alpha, s.jRoot),
          sat |-> Mul(Dec(50, 0),
                      Sqrt(Div(Mul(s.alpha, s.vc.c), Add(s.vc.aw, Dec(4, 0)))))]

\* m and jstar
Cam16_from_int_colorfulness(s) ==
    s @@ [m |-> Mul(s.c, s.vc.fLRoot),
          jstar |-> Div(Mul(Add(One, Mul(Dec(100, 0), Dec(7, -3))), s.j),
                        Add(One, Mul(Dec(7, -3), s.j)))]

\* mstar
Cam16_from_int_mstar(s) ==
    s @@ [mstar |-> Mul(Div(One, Dec(228, -4)), Ln(Add(One, Mul(Dec(228, -4), s.m))))]

\* astar, bstar and the returned object
Cam16_from_int_result(s) ==
    Cam16(s.hue, s.c, s.j, s.q, s.m, s.sat, s.jstar,
          Mul(s.mstar, Cos(s.hueRadians)), Mul(s.mstar, Sin(s.hueRadians)))

\* Cam16.from_int_in_viewing_conditions
Cam16_from_int_in_viewing_conditions(argb, vc) ==
    Cam16_from_int_result(Cam16_from_int_mstar(Cam16_from_int_colorfulness(
        Cam16_from_int_chroma(Cam16_from_int_alpha(Cam16_from_int_hue(
            Cam16_from_int_lightness(Cam16_from_int_opponent(Cam16_from_int_adapted(
                Cam16_from_int_factor(Cam16_from_int_discounted(Cam16_from_int_xyz(
                    Cam16_from_int_linear(argb, vc)))))))))))))

\* Cam16.from_int
Cam16_from_int(argb) ==
    Cam16_from_int_in_viewing_conditions(argb, ViewingConditions_DEFAULT)

\* the returned object with twice the chroma
Cam16_fromJch_result_doubled(h, c, j, q, m, s, jstar, mstar) ==
    Cam16(h, Mul(Two, c), j, q, m, s, jstar,
          Mul(mstar, Cos(Div(Mul(h, Pi), Dec(180, 0)))),
          Mul(mstar, Sin(Div(Mul(h, Pi), Dec(180, 0)))))

\* fromJch_in_viewing_conditions: astar, bstar and the returned object
Cam16_fromJch_result(h, c, j, q, m, s, jstar, mstar) ==
    Cam16(h, c, j, q, m, s, jstar,
          Mul(mstar, Cos(Div(Mul(h, Pi), Dec(180, 0)))),
          Mul(mstar, Sin(Div(Mul(h, Pi), Dec(180, 0)))))

\* mstar; math.log raises ValueError unless its argument is positive
Cam16_fromJch_mstar(h, c, j, q, m, s, jstar) ==
    IF Add(One, Mul(Dec(228, -4), m))[1] <= 0 THEN Raised("ValueError")
    ELSE Cam16_fromJch_result(h, c, j, q, m, s, jstar,
             Mul(Div(One, Dec(228, -4)), Ln(Add(One, Mul(Dec(228, -4), m)))))

\* q, m, alpha, s and jstar, from jRoot = math.sqrt(j / 100.0)
Cam16_fromJch_root(j, c, h, vc, jRoot) ==
    Cam16_fromJch_mstar(h, c, j,
        Mul(Mul(Mul(Div(Dec(4, 0), vc.c), jRoot), Add(vc.aw, Dec(4, 0))), vc.fLRoot),
        Mul(c, vc.fLRoot),
        Mul(Dec(50, 0), Sqrt(Div(Mul(Div(c, jRoot), vc.c), Add(vc.aw, Dec(4, 0))))),
        Div(Mul(Add(One, Mul(Dec(100, 0), Dec(7, -3))), j),
            Add(One, Mul(Dec(7, -3), j))))

\* Cam16.fromJch_in_viewing_conditions: math.sqrt raises ValueError for
\* j < 0, c / math.sqrt(j / 100.0) raises ZeroDivisionError for j = 0, and
\* math.sqrt((alpha * vc.c) / (vc.aw + 4.0)) raises ValueError for alpha < 0
Cam16_fromJch_in_viewing_conditions(j, c, h, vc) ==
    IF j[1] < 0 THEN Raised("ValueError")
    ELSE IF j[1] = 0 THEN Raised("ZeroDivisionError")
    ELSE IF Mul(c, vc.c)[1] < 0 THEN Raised("ValueError")
    ELSE Cam16_fromJch_root(j, c, h, vc, Sqrt(Div(j, Dec(100, 0))))

\* Cam16.fromJch
Cam16_fromJch(j, c, h) ==
    Cam16_fromJch_in_viewing_conditions(j, c, h, ViewingConditions_DEFAULT)

\* h without the correction of a negative angle
Cam16_fromUcs_hue_raw(h) == h

\* fromUcs_in_viewing_conditions: if (h < 0.0): h += 360.0
Cam16_fromUcs_hue(h) == IF Lt(h, Zero) THEN Add(h, Dec(360, 0)) ELSE h

\* m, M, c, h and j, from den = 1 - (jstar - 100) * 0.007
Cam16_fromUcs_j(jstar, a, b, vc, den) ==
    IF IsZero(den) THEN Raised("ZeroDivisionError")
    ELSE Cam16_fromJch_in_viewing_conditions(
             Div(jstar, den),
             Div(Div(Sub(Exp(Mul(Sqrt(Add(Mul(a, a), Mul(b, b))), Dec(228, -4))), One),
                     Dec(228, -4)), vc.fLRoot),
             Cam16_fromUcs_hue(Mul(Atan2(b, a), Div(Dec(180, 0), Pi))),
             vc)

\* Cam16.fromUcs_in_viewing_conditions
Cam16_fromUcs_in_viewing_conditions(jstar, astar, bstar, vc) ==
    Cam16_fromUcs_j(jstar, astar, bstar, vc,
                    Sub(One, Mul(Sub(jstar, Dec(100, 0)), Dec(7, -3))))

\* Cam16.from_ucs
Cam16_from_ucs(jstar, astar, bstar) ==
    Cam16_fromUcs_in_viewing_conditions(jstar, astar, bstar, ViewingConditions_DEFAULT)

\* viewed with alpha 1 where the source writes 0.0
Cam16_viewed_alpha_one(self, vc) ==
    [vc |-> vc,
     alpha |-> IF IsZero(self.chroma) \/ IsZero(self.j) THEN One
               ELSE Div(self.chroma, Sqrt(Div(self.j, Dec(100, 0)))),
     hRad |-> Div(Mul(self.hue, Pi), Dec(180, 0)),
     p2 |-> Div(Mul(vc.aw, Pow(Div(self.j, Dec(100, 0)), Div(Div(One, vc.c), vc.z))),
                vc.nbb)]

\* viewed: alpha, hRad, ac and p2
Cam16_viewed_alpha(self, vc) ==
    [vc |-> vc,
     alpha |-> IF IsZero(self.chroma) \/ IsZero(self.j) THEN Zero
               ELSE Div(self.chroma, Sqrt(Div(self.j, Dec(100, 0)))),
     hRad |-> Div(Mul(self.hue, Pi), Dec(180, 0)),
     p2 |-> Div(Mul(vc.aw, Pow(Div(self.j, Dec(100, 0)), Div(Div(One, vc.c), vc.z))),
                vc.nbb)]

\* t, eHue, p1, hSin and hCos
Cam16_viewed_t(s) ==
    s @@ [t |-> Pow(Div(s.alpha,
                        Pow(Sub(Dec(164, -2), Pow(Dec(29, -2), s.vc.n)), Dec(73, -2))),
                    Div(One, Dec(9, -1))),
          p1 |-> Mul(Mul(Mul(Mul(Dec(25, -2), Add(Cos(Add(s.hRad, Two)), Dec(38, -1))),
                             Div(Dec(50000, 0), Dec(13, 0))), s.vc.nc), s.vc.ncb),
          hSin |-> Sin(s.hRad),
          hCos |-> Cos(s.hRad)]

\* gamma
Cam16_viewed_gamma(s) ==
    s @@ [gamma |-> Div(Mul(Mul(Dec(23, 0), Add(s.p2, Dec(305, -3))), s.t),
                        Add(Add(Mul(Dec(23, 0), s.p1), Mul(Mul(Dec(11, 0), s.t), s.hCos)),
                            Mul(Mul(Dec(108, 0), s.t), s.hSin)))]

\* a and b
Cam16_viewed_ab(s) ==
    s @@ [a |-> Mul(s.gamma, s.hCos), b |-> Mul(s.gamma, s.hSin)]

\* rA, gA and bA with the coefficient 451.0 of rA written 415.0
Cam16_viewed_adapted_mistyped(s) ==
    s @@ [rA |-> Div(Add(Add(Mul(Dec(460, 0), s.p2), Mul(Dec(415, 0), s.a)),
                         Mul(Dec(288, 0), s.b)), Dec(1403, 0)),
          gA |-> Div(Sub(Sub(Mul(Dec(460, 0), s.p2), Mul(Dec(891, 0), s.a)),
                         Mul(Dec(261, 0), s.b)), Dec(1403, 0)),
          bA |-> Div(Sub(Sub(Mul(Dec(460, 0), s.p2), Mul(Dec(220, 0), s.a)),
                         Mul(Dec(6300, 0), s.b)), Dec(1403, 0))]

\* rA, gA and bA
Cam16_viewed_adapted(s) ==
    s @@ [rA |-> Div(Add(Add(Mul(Dec(460, 0), s.p2), Mul(Dec(451, 0), s.a)),
                         Mul(Dec(288, 0), s.b)), Dec(1403, 0)),
          gA |-> Div(Sub(Sub(Mul(Dec(460, 0), s.p2), Mul(Dec(891, 0), s.a)),
                         Mul(Dec(261, 0), s.b)), Dec(1403, 0)),
          bA |-> Div(Sub(Sub(Mul(Dec(460, 0), s.p2), Mul(Dec(220, 0), s.a)),
                         Mul(Dec(6300, 0), s.b)), Dec(1403, 0))]

\* max(0, x)
Max0(x) == IF x[1] < 0 THEN Zero ELSE x

\* rCBase, gCBase and bCBase
Cam16_viewed_base(s) ==
    s @@ [rCBase |-> Max0(Div(Mul(Dec(2713, -2), Abs(s.rA)), Sub(Dec(400, 0), Abs(s.rA)))),
          gCBase |-> Max0(Div(Mul(Dec(2713, -2), Abs(s.gA)), Sub(Dec(400, 0), Abs(s.gA)))),
          bCBase |-> Max0(Div(Mul(Dec(2713, -2), Abs(s.bA)), Sub(Dec(400, 0), Abs(s.bA))))]

\* rC, gC, bC and rF, gF, bF
Cam16_viewed_rgbF(s) ==
    s @@ [rF |-> Div(Mul(Mul(signum(s.rA), Div(Dec(100, 0), s.vc.fl)),
                         Pow(s.rCBase, Div(One, Dec(42, -2)))), s.vc.rgbD[1]),
          gF |-> Div(Mul(Mul(signum(s.gA), Div(Dec(100, 0), s.vc.fl)),
                         Pow(s.gCBase, Div(One, Dec(42, -2)))), s.vc.rgbD[2]),
          bF |-> Div(Mul(Mul(signum(s.bA), Div(Dec(100, 0), s.vc.fl)),
                         Pow(s.bCBase, Div(One, Dec(42, -2)))), s.vc.rgbD[3])]

\* x, y, z and the returned ARGB word
Cam16_viewed_result(s) ==
    argb_from_xyz(
        Add(Sub(Mul(Dec(186206786, -8), s.rF), Mul(Dec(101125463, -8), s.gF)),
            Mul(Dec(14918677, -8), s.bF)),
        Sub(Add(Mul(Dec(38752654, -8), s.rF), Mul(Dec(62144744, -8), s.gF)),
            Mul(Dec(897398, -8), s.bF)),
        Add(Sub(Mul(Dec(-1584150, -8), s.rF), Mul(Dec(3412294, -8), s.gF)),
            Mul(Dec(104996444, -8), s.bF)))

\* Cam16.viewed
Cam16_viewed(self, vc) ==
    Cam16_viewed_result(Cam16_viewed_rgbF(Cam16_viewed_base(Cam16_viewed_adapted(
        Cam16_viewed_ab(Cam16_viewed_gamma(Cam16_viewed_t(
            Cam16_viewed_alpha(self, vc))))))))

\* Cam16.to_int
Cam16_to_int(self) == Cam16_viewed(self, ViewingConditions_DEFAULT)

(***************************************************************************)
(* utils/string_utils.py.  A string is a sequence of one-character         *)
(* strings.                                                                *)
(***************************************************************************)
HexLower == <<"0", "1", "2", "3", "4", "5", "6", "7", "8", "9",
              "a", "b", "c", "d", "e", "f">>

HexUpper == <<"0", "1", "2", "3", "4", "5", "6", "7", "8", "9",
              "A", "B", "C", "D", "E", "F">>

\* the digits of n > 0 in base 16, lowercase, most significant first
RECURSIVE format_x(_)
format_x(n) == IF n = 0 THEN <<>> ELSE Append(format_x(n \div 16), HexLower[(n % 16) + 1])

\* the format 02x without the zero padding
format_02x_unpadded(n) == IF n = 0 THEN <<"0">> ELSE format_x(n)

\* the format specification 02x of an integer n >= 0: lowercase base 16,
\* padded with zeros on the left to at least two characters
format_02x(n) ==
    IF n = 0 THEN <<"0", "0">>
    ELSE IF n < 16 THEN <<"0">> \o format_x(n)
    ELSE format_x(n)

hex_from_argb(argb) ==
    <<"#">> \o format_02x(red_from_argb(argb)) \o format_02x(green_from_argb(argb))
            \o format_02x(blue_from_argb(argb))

\* a character int(..., 16) reads as a digit
IsHexDigit(ch) == \E i \in 1..16 : HexLower[i] = ch \/ HexUpper[i] = ch

HexDigitValue(ch) == (CHOOSE i \in 1..16 : HexLower[i] = ch \/ HexUpper[i] = ch) - 1

\* int(value, 16) of a two-character string returns: two digits, or a sign
\* and a digit, or a digit with a blank before or after it
parse_int_hex_returns(value) ==
    /\ Len(value) = 2
    /\ \/ IsHexDigit(value[1]) /\ IsHexDigit(value[2])
       \/ value[1] \in {"+", "-", " "} /\ IsHexDigit(value[2])
       \/ IsHexDigit(value[1]) /\ value[2] = " "

\* parse_int_hex: int(value, 16) where it returns
parse_int_hex(value) ==
    IF IsHexDigit(value[1]) /\ IsHexDigit(value[2])
    THEN 16 * HexDigitValue(value[1]) + HexDigitValue(value[2])
    ELSE IF value[1] = "-" THEN -HexDigitValue(value[2])
    ELSE IF IsHexDigit(value[2]) THEN HexDigitValue(value[2])
    ELSE HexDigitValue(value[1])

\* hex.replace('#', '')
RemoveHashes(hex) == SelectSeq(hex, LAMBDA ch : ch # "#")

\* argb_from_hex after the length test: int raises ValueError on a part it
\* cannot read, else the packed word is returned
argb_from_hex_parts(r, g, b) ==
    IF ~(parse_int_hex_returns(r) /\ parse_int_hex_returns(g) /\ parse_int_hex_returns(b))
    THEN Raised("ValueError")
    ELSE [argb |-> rshift(Word(255 * 256 + (parse_int_hex(r) % 256),
                               (parse_int_hex(g) % 256) * 256 + (parse_int_hex(b) % 256)),
                          0)]

\* argb_from_hex after hex = hex.replace('#', '')
argb_from_hex_stripped(hex) ==
    IF Len(hex) = 3
    THEN argb_from_hex_parts(<<hex[1], hex[1]>>, <<hex[2], hex[2]>>, <<hex[3], hex[3]>>)
    ELSE IF Len(hex) = 6
    THEN argb_from_hex_parts(SubSeq(hex, 1, 2), SubSeq(hex, 3, 4), SubSeq(hex, 5, 6))
    ELSE IF Len(hex) = 8
    THEN argb_from_hex_parts(SubSeq(hex, 3, 4), SubSeq(hex, 5, 6), SubSeq(hex, 7, 8))
    ELSE Raised("Exception")

\* argb_from_hex: [argb |-> word] when it returns
argb_from_hex(hex) == argb_from_hex_stripped(RemoveHashes(hex))

(***************************************************************************)
(* hct/hct.py: Hct, as the specification describes it.  Hct.from_int takes *)
(* hue and chroma from Cam16.from_int and the tone from lstar_from_argb.   *)
(* Hct.from_hct searches, by bisection over J, the colour at the requested *)
(* hue whose tone matches; when the requested chroma has no such colour in *)
(* gamut, it bisects the chroma between 0 and the requested value.         *)
(***************************************************************************)
\* the tone of a candidate matches within this tolerance
ToneTolerance == Dec(5, -1)

\* a clipped colour is in gamut when it lies within this CAM16-UCS distance
\* of the colour of its own J and chroma at the requested hue
GamutTolerance == One

\* no candidate: a distance beyond every tolerance
NoCandidate == Dec(1000, 0)

\* the Hct of an ARGB colour and its Cam16
Hct_of(cam, argb) ==
    [hue |-> cam.hue, chroma |-> cam.chroma, tone |-> lstar_from_argb(argb),
     argb |-> argb]

\* Hct.from_int
Hct_from_int(argb) == Hct_of(Cam16_from_int(argb), argb)

\* low + (high - low) / 2
Midpoint(low, high) == Add(low, Div(Sub(high, low), Two))

\* the start of a search over J
Hct_j_start ==
    [low |-> Zero, high |-> Dec(100, 0), steps |-> 0, best |-> <<>>,
     bestdE |-> NoCandidate]

\* the start of Hct.from_hct: the requested chroma is tried first
Hct_search_start(hue, chroma, tone) ==
    [hue |-> hue, chroma |-> chroma, tone |-> tone, first |-> TRUE,
     low_c |-> Zero, high_c |-> chroma, mid_c |-> chroma, steps_c |-> 0,
     answer |-> <<>>] @@ Hct_j_start

\* the distance of a clipped colour's Cam16 from the colour of its J and
\* chroma at the requested hue; the Cam16 is <<>> when the tone did not match
Hct_candidate_dE(camClipped, hue) ==
    IF camClipped = <<>> THEN NoCandidate
    ELSE IF IsZero(camClipped.j) THEN NoCandidate
    ELSE Cam16_distance(camClipped, Cam16_fromJch(camClipped.j, camClipped.chroma, hue))

\* one step of the bisection over J: the best candidate so far is replaced
\* by one that is no farther, and the interval is halved toward the tone
Hct_j_next(s, mid, clipped, lstar, dE) ==
    [s EXCEPT !.steps = @ + 1,
              !.low = IF Lt(lstar, s.tone) THEN mid ELSE @,
              !.high = IF Lt(lstar, s.tone) THEN @ ELSE mid,
              !.best = IF Le(dE, GamutTolerance) /\ Le(dE, s.bestdE)
                       THEN <<clipped>> ELSE @,
              !.bestdE = IF Le(dE, GamutTolerance) /\ Le(dE, s.bestdE)
                         THEN dE ELSE @]

\* a new search over J with the chroma in the middle of [low_c, high_c]
Hct_chroma_retry(s) ==
    [s EXCEPT !.first = FALSE, !.mid_c = Midpoint(s.low_c, s.high_c),
              !.low = Zero, !.high = Dec(100, 0), !.steps = 0, !.best = <<>>,
              !.bestdE = NoCandidate]

\* one step of the bisection over the chroma, after a search over J
Hct_chroma_next(s) ==
    [s EXCEPT !.steps_c = @ + 1,
              !.high_c = IF s.best = <<>> THEN s.mid_c ELSE @,
              !.low_c = IF s.best = <<>> THEN @ ELSE s.mid_c,
              !.answer = IF s.best = <<>> THEN @ ELSE s.best]

\* the colour of the search: the last candidate, or the gray of the tone
Hct_answer(s) == IF s.answer = <<>> THEN argb_From_lstar(s.tone) ELSE s.answer[1]

(***************************************************************************)
(* blend/blend.py                                                          *)
(***************************************************************************)
\* np.sign(values[np.argmin(np.abs(values))]): the first value of least
\* magnitude decides
Blend_rotation_direction_values(v1, v2, v3) ==
    IF Le(Abs(v1), Abs(v2)) /\ Le(Abs(v1), Abs(v3)) THEN signum(v1)
    ELSE IF Le(Abs(v2), Abs(v3)) THEN signum(v2)
    ELSE signum(v3)

\* Blend.rotation_direction with the two angles exchanged
Blend_rotation_direction_reversed(from_v, to) ==
    Blend_rotation_direction_values(Sub(from_v, to),
                                    Add(Sub(from_v, to), Dec(360, 0)),
                                    Sub(Sub(from_v, to), Dec(360, 0)))

\* Blend.rotation_direction
Blend_rotation_direction(from_v, to) ==
    Blend_rotation_direction_values(Sub(to, from_v),
                                    Add(Sub(to, from_v), Dec(360, 0)),
                                    Sub(Sub(to, from_v), Dec(360, 0)))

\* rotation_degrees = min(difference_degrees_v * 0.5, 15.0)
Blend_rotation_degrees(difference_degrees_v) ==
    FMin(Mul(difference_degrees_v, Half), Dec(15, 0))

\* output_hue with a rotation of 15 degrees whatever the hues
Blend_output_hue_fixed(from_hue, to_hue) ==
    sanitize_degrees_double(Add(from_hue, Dec(15, 0)))

\* output_hue of Blend.harmonize, from the hues of the two Hct objects
Blend_output_hue(from_hue, to_hue) ==
    sanitize_degrees_double(
        Add(from_hue, Mul(Blend_rotation_degrees(difference_degrees(from_hue, to_hue)),
                          Blend_rotation_direction(from_hue, to_hue))))

\* Blend.cam16_ucs: jstar, astar and bstar handed to Cam16.from_ucs; toa is
\* assigned to_cam.astar and then to_cam.bstar, and both astar and bstar are
\* computed from toa
Blend_cam16_ucs_point(from_cam, to_cam, amount) ==
    [jstar |-> Add(from_cam.jstar, Mul(Sub(to_cam.jstar, from_cam.jstar), amount)),
     astar |-> Add(from_cam.astar, Mul(Sub(to_cam.bstar, from_cam.astar), amount)),
     bstar |-> Add(from_cam.bstar, Mul(Sub(to_cam.bstar, from_cam.bstar), amount))]

\* Cam16.from_ucs(jstar, astar, bstar).to_int()
Blend_cam16_ucs_return(cam) == IF IsRaised(cam) THEN cam ELSE Cam16_to_int(cam)

(***************************************************************************)
(* The state machine: a client that calls the library.  pc is "idle"       *)
(* between calls and "done" when a call has returned; call records the     *)
(* function called, its arguments and its result.  Some calls take the     *)
(* result of the call before as their argument.                            *)
(***************************************************************************)
Colors == {argb_from_rgb(r, g, b) : r \in Levels, g \in Levels, b \in Levels}

CamColors ==
    {argb_from_rgb(r, g, b) : r \in CamLevels, g \in CamLevels, b \in CamLevels}

\* 0xFF000000, 0xFFFFFFFF and 0xFFFF0000
Black == Word(65280, 0)
White == Word(65535, 65535)
Red == Word(65535, 0)

\* arguments of the functions that take floats: zero, negative, small,
\* ordinary and very large values
Floats ==
    {Zero, Dec(-5, 0), Dec(3, -3), Dec(50, 0), Dec(95047, -3), Dec(250, 0),
     Dec(1, 30), Dec(-1, 30)}

Init ==
    /\ pc = "idle"
    /\ call = [fn |-> "none"]

Return ==
    /\ pc = "done"
    /\ pc' = "idle"
    /\ call' = [fn |-> "none"]

CallArgbFromRgb ==
    /\ pc = "idle"
    /\ \E r \in Levels, g \in Levels, b \in Levels :
          call' = [fn |-> "argb_from_rgb", red |-> r, green |-> g, blue |-> b,
                   ret |-> argb_from_rgb(r, g, b)]
    /\ pc' = "done"

\* alpha_from_argb applied to the word argb_from_rgb returned
CallAlphaFromArgb ==
    /\ pc = "done" /\ call.fn = "argb_from_rgb"
    /\ call' = [fn |-> "alpha_from_argb", argb |-> call.ret, of |-> call,
                ret |-> alpha_from_argb(call.ret)]
    /\ pc' = "done"

CallRedFromArgb ==
    /\ pc = "done" /\ call.fn = "argb_from_rgb"
    /\ call' = [fn |-> "red_from_argb", argb |-> call.ret, of |-> call,
                ret |-> red_from_argb(call.ret)]
    /\ pc' = "done"

CallGreenFromArgb ==
    /\ pc = "done" /\ call.fn = "argb_from_rgb"
    /\ call' = [fn |-> "green_from_argb", argb |-> call.ret, of |-> call,
                ret |-> green_from_argb(call.ret)]
    /\ pc' = "done"

CallBlueFromArgb ==
    /\ pc = "done" /\ call.fn = "argb_from_rgb"
    /\ call' = [fn |-> "blue_from_argb", argb |-> call.ret, of |-> call,
                ret |-> blue_from_argb(call.ret)]
    /\ pc' = "done"

\* the camelCase variant of the same calls
CallArgbFromRgbCamel ==
    /\ pc = "idle"
    /\ \E r \in Levels, g \in Levels, b \in Levels :
          call' = [fn |-> "argbFromRgb", red |-> r, green |-> g, blue |-> b,
                   ret |-> argbFromRgb(r, g, b)]
    /\ pc' = "done"

CallAlphaFromArgbCamel ==
    /\ pc = "done" /\ call.fn = "argbFromRgb"
    /\ call' = [fn |-> "alphaFromArgb", argb |-> call.ret, of |-> call,
                ret |-> alphaFromArgb(call.ret)]
    /\ pc' = "done"

CallRedFromArgbCamel ==
    /\ pc = "done" /\ call.fn = "argbFromRgb"
    /\ call' = [fn |-> "redFromArgb", argb |-> call.ret, of |-> call,
                ret |-> redFromArgb(call.ret)]
    /\ pc' = "done"

CallGreenFromArgbCamel ==
    /\ pc = "done" /\ call.fn = "argbFromRgb"
    /\ call' = [fn |-> "greenFromArgb", argb |-> call.ret, of |-> call,
                ret |-> greenFromArgb(call.ret)]
    /\ pc' = "done"

CallBlueFromArgbCamel ==
    /\ pc = "done" /\ call.fn = "argbFromRgb"
    /\ call' = [fn |-> "blueFromArgb", argb |-> call.ret, of |-> call,
                ret |-> blueFromArgb(call.ret)]
    /\ pc' = "done"

NextPack ==
    \/ CallArgbFromRgb
    \/ CallAlphaFromArgb
    \/ CallRedFromArgb
    \/ CallGreenFromArgb
    \/ CallBlueFromArgb
    \/ CallArgbFromRgbCamel
    \/ CallAlphaFromArgbCamel
    \/ CallRedFromArgbCamel
    \/ CallGreenFromArgbCamel
    \/ CallBlueFromArgbCamel
    \/ Return

\* the packing and unpacking of ARGB words
SpecPack == Init /\ [][NextPack]_vars

CallXyzFromArgb ==
    /\ pc = "idle"
    /\ \E c \in Colors :
          call' = [fn |-> "xyz_from_argb", argb |-> c, ret |-> xyz_from_argb(c)]
    /\ pc' = "done"

\* argb_from_xyz applied to the three components xyz_from_argb returned
CallArgbFromXyzBack ==
    /\ pc = "done" /\ call.fn = "xyz_from_argb"
    /\ call' = [fn |-> "argb_from_xyz", x |-> call.ret[1], y |-> call.ret[2],
                z |-> call.ret[3], of |-> call.argb,
                ret |-> argb_from_xyz(call.ret[1], call.ret[2], call.ret[3])]
    /\ pc' = "done"

\* argb_from_xyz applied to any three floats
CallArgbFromXyz ==
    /\ pc = "idle"
    /\ \E x \in Floats, y \in Floats, z \in Floats :
          call' = [fn |-> "argb_from_xyz", x |-> x, y |-> y, z |-> z, of |-> <<>>,
                   ret |-> argb_from_xyz(x, y, z)]
    /\ pc' = "done"

CallLstarFromArgb ==
    /\ pc = "idle"
    /\ \E c \in Colors :
          call' = [fn |-> "lstar_from_argb", argb |-> c, ret |-> lstar_from_argb(c)]
    /\ pc' = "done"

CallDelinearized ==
    /\ pc = "idle"
    /\ \E x \in Floats :
          call' = [fn |-> "delinearized", rgbComponent |-> x, ret |-> delinearized(x)]
    /\ pc' = "done"

CallArgdFromLab ==
    /\ pc = "idle"
    /\ \E l \in Floats, a \in Floats, b \in Floats :
          call' = [fn |-> "argd_from_lab", l |-> l, a |-> a, b |-> b,
                   ret |-> argd_from_lab(l, a, b)]
    /\ pc' = "done"

CallArgbFromLstar ==
    /\ pc = "idle"
    /\ \E lstar \in Floats :
          call' = [fn |-> "argb_From_lstar", lstar |-> lstar,
                   ret |-> argb_From_lstar(lstar)]
    /\ pc' = "done"

\* Cam16.viewed of an object with any non-negative j and chroma
CallCam16Viewed ==
    /\ pc = "idle"
    /\ \E j \in {Zero, Dec(50, 0), Dec(100, 0), Dec(1, 4)},
          chroma \in {Zero, Dec(30, 0), Dec(1, 3)},
          hue \in {Zero, Dec(120, 0), Dec(300, 0)} :
          call' = [fn |-> "Cam16.viewed", j |-> j, chroma |-> chroma, hue |-> hue,
                   ret |-> Cam16_viewed(Cam16(hue, chroma, j, Zero, Zero, Zero,
                                              Zero, Zero, Zero),
                                        ViewingConditions_DEFAULT)]
    /\ pc' = "done"

NextXyz ==
    \/ CallXyzFromArgb
    \/ CallArgbFromXyzBack
    \/ CallArgbFromXyz
    \/ CallLstarFromArgb
    \/ CallDelinearized
    \/ CallArgdFromLab
    \/ CallArgbFromLstar
    \/ CallCam16Viewed
    \/ Return

\* the conversions between ARGB, XYZ, L*a*b* and L*
SpecXyz == Init /\ [][NextXyz]_vars

\* the colours a distance is taken to: the colour itself, white, red, blue
Others(argb) == {argb, White, Red, Word(65280, 255)}

CallCam16FromInt ==
    /\ pc = "idle"
    /\ \E c \in CamColors :
          call' = [fn |-> "Cam16.from_int", argb |-> c, ret |-> Cam16_from_int(c)]
    /\ pc' = "done"

\* to_int of the object Cam16.from_int returned
CallCam16ToInt ==
    /\ pc = "done" /\ call.fn = "Cam16.from_int"
    /\ call' = [fn |-> "Cam16.to_int", self |-> call.ret, of |-> call.argb,
                ret |-> Cam16_to_int(call.ret)]
    /\ pc' = "done"

\* distance from the object Cam16.from_int returned to the Cam16 of another
\* colour
CallCam16Distance ==
    /\ pc = "done" /\ call.fn = "Cam16.from_int"
    /\ \E o \in Others(call.argb) :
          \E other \in {Cam16_from_int(o)} :
             call' = [fn |-> "Cam16.distance", self |-> call.ret, other |-> other,
                      ret |-> Cam16_distance(call.ret, other)]
    /\ pc' = "done"

\* Cam16.from_ucs on the jstar, astar and bstar of the object Cam16.from_int
\* returned
CallCam16FromUcs ==
    /\ pc = "done" /\ call.fn = "Cam16.from_int"
    /\ call' = [fn |-> "Cam16.from_ucs", argb |-> call.argb, of |-> call.ret,
                ret |-> Cam16_from_ucs(call.ret.jstar, call.ret.astar, call.ret.bstar)]
    /\ pc' = "done"

\* to_int of the object Cam16.from_ucs returned, when it returned one
CallCam16FromUcsToInt ==
    /\ pc = "done" /\ call.fn = "Cam16.from_ucs" /\ ~IsRaised(call.ret)
    /\ call' = [fn |-> "Cam16.from_ucs.to_int", argb |-> call.argb,
                ret |-> Cam16_to_int(call.ret)]
    /\ pc' = "done"

\* Cam16.fromJch of any three numbers
CallCam16FromJch ==
    /\ pc = "idle"
    /\ \E j \in {Zero, Dec(50, 0), Dec(-1, 0)},
          c \in {Zero, Dec(30, 0), Dec(-5, 0)},
          h \in {Zero, Dec(120, 0), Dec(400, 0), Dec(-30, 0)} :
          call' = [fn |-> "Cam16.fromJch", j |-> j, c |-> c, h |-> h,
                   ret |-> Cam16_fromJch(j, c, h)]
    /\ pc' = "done"

NextCam ==
    \/ CallCam16FromInt
    \/ CallCam16ToInt
    \/ CallCam16Distance
    \/ CallCam16FromUcs
    \/ CallCam16FromUcsToInt
    \/ CallCam16FromJch
    \/ Return

\* the CAM16 conversions of ARGB colours
SpecCam == Init /\ [][NextCam]_vars

\* the hues of the two Hct objects of Blend.harmonize: tenths of a degree
\* spread over [0, 360)
Hues == {Dec((3600 * i) \div MaxHue, -1) : i \in 0..(MaxHue - 1)}

\* the hue computation of Blend.harmonize, from from_hct.hue and to_hct.hue
\* to the hue handed to Hct.from_hct
CallHarmonizeHue ==
    /\ pc = "idle"
    /\ \E h1 \in Hues, h2 \in Hues :
          call' = [fn |-> "Blend.harmonize.output_hue", from_hue |-> h1, to_hue |-> h2,
                   ret |-> Blend_output_hue(h1, h2)]
    /\ pc' = "done"

NextHue ==
    \/ CallHarmonizeHue
    \/ Return

\* the hue rotation of Blend.harmonize
SpecHue == Init /\ [][NextHue]_vars

\* the colours blended: MaxBlendLevel + 1 levels per channel
BlendColors ==
    {argb_from_rgb((255 * r) \div MaxBlendLevel, (255 * g) \div MaxBlendLevel,
                   (255 * b) \div MaxBlendLevel) :
        r \in 0..MaxBlendLevel, g \in 0..MaxBlendLevel, b \in 0..MaxBlendLevel}

\* the colours blended toward: red, blue, white
BlendTargets == {Red, Word(65280, 255), White}

\* the amounts of a blend: 0, 0.25, 0.5, 0.75, 1
Amounts == {Zero, Dec(25, -2), Half, Dec(75, -2), One}

\* Blend.cam16_ucs: each intermediate value is computed once, in the order of
\* the source
CallCam16Ucs ==
    /\ pc = "idle"
    /\ \E f \in BlendColors, t \in BlendTargets, amount \in Amounts :
          \E from_cam \in {Cam16_from_int(f)} :
             \E to_cam \in {Cam16_from_int(t)} :
                \E ucs \in {Blend_cam16_ucs_point(from_cam, to_cam, amount)} :
                   \E cam \in {Cam16_from_ucs(ucs.jstar, ucs.astar, ucs.bstar)} :
                      call' = [fn |-> "Blend.cam16_ucs", from_v |-> f, to |-> t,
                               amount |-> amount, from_cam |-> from_cam,
                               to_cam |-> to_cam, ucs |-> ucs,
                               ret |-> Blend_cam16_ucs_return(cam)]
    /\ pc' = "done"

NextUcs ==
    \/ CallCam16Ucs
    \/ Return

\* blends in CAM16-UCS
SpecUcs == Init /\ [][NextUcs]_vars

\* teal, 0xFF008080
Teal == Word(65280, 32896)

\* gray, 0xFF808080
Gray == Word(65408, 32896)

\* designColor and sourceColor of Blend.harmonize
HarmonizePairs ==
    {<<Red, Red>>, <<Word(65280, 255), Word(65280, 255)>>, <<Teal, Teal>>,
     <<White, White>>, <<Black, Black>>, <<Red, Word(65280, 255)>>, <<Teal, Red>>,
     <<Gray, Red>>}

\* Blend.harmonize up to the call of Hct.from_hct
CallHarmonize ==
    /\ pc = "idle"
    /\ \E p \in HarmonizePairs :
          \E from_hct \in {Hct_from_int(p[1])} :
             \E to_hct \in {Hct_from_int(p[2])} :
                \E output_hue \in {Blend_output_hue(from_hct.hue, to_hct.hue)} :
                   call' = [fn |-> "Blend.harmonize", designColor |-> p[1],
                            sourceColor |-> p[2], from_hct |-> from_hct,
                            to_hct |-> to_hct, output_hue |-> output_hue,
                            solver |-> Hct_search_start(output_hue, from_hct.chroma,
                                                        from_hct.tone)]
    /\ pc' = "Hct.from_hct"

\* Hct.from_hct: one step of the search over J
HctSearchJ ==
    /\ pc = "Hct.from_hct" /\ call.solver.steps < MaxJSteps
    /\ \E s \in {call.solver} :
          \E mid \in {Midpoint(s.low, s.high)} :
             \E cam \in {Cam16_fromJch(mid, s.mid_c, s.hue)} :
                \E clipped \in {Cam16_to_int(cam)} :
                   \E lstar \in {lstar_from_argb(clipped)} :
                      \E camClipped \in {IF Lt(Abs(Sub(s.tone, lstar)), ToneTolerance)
                                         THEN Cam16_from_int(clipped) ELSE <<>>} :
                         \E dE \in {Hct_candidate_dE(camClipped, s.hue)} :
                            call' = [call EXCEPT
                                        !.solver = Hct_j_next(s, mid, clipped, lstar, dE)]
    /\ pc' = pc

\* Hct.from_hct: the requested chroma has a colour; Blend.harmonize returns it
HctFound ==
    /\ pc = "Hct.from_hct" /\ call.solver.steps = MaxJSteps
    /\ call.solver.first /\ call.solver.best # <<>>
    /\ \E argb \in {call.solver.best[1]} :
          call' = [fn |-> "Blend.harmonize", designColor |-> call.designColor,
                   sourceColor |-> call.sourceColor, from_hct |-> call.from_hct,
                   output_hue |-> call.output_hue, reduced |-> FALSE,
                   ret |-> argb, ret_hct |-> Hct_from_int(argb)]
    /\ pc' = "done"

\* Hct.from_hct: the next chroma is tried
HctSearchChroma ==
    /\ pc = "Hct.from_hct" /\ call.solver.steps = MaxJSteps
    /\ \/ call.solver.first /\ call.solver.best = <<>>
       \/ ~call.solver.first /\ call.solver.steps_c + 1 < MaxChromaSteps
    /\ call' = [call EXCEPT
                   !.solver = IF call.solver.first THEN Hct_chroma_retry(call.solver)
                              ELSE Hct_chroma_retry(Hct_chroma_next(call.solver))]
    /\ pc' = pc

\* Hct.from_hct: the search over the chroma ends; Blend.harmonize returns
\* the last colour it found, or the gray of the tone
HctFinish ==
    /\ pc = "Hct.from_hct" /\ call.solver.steps = MaxJSteps
    /\ ~call.solver.first /\ call.solver.steps_c + 1 = MaxChromaSteps
    /\ \E argb \in {Hct_answer(Hct_chroma_next(call.solver))} :
          call' = [fn |-> "Blend.harmonize", designColor |-> call.designColor,
                   sourceColor |-> call.sourceColor, from_hct |-> call.from_hct,
                   output_hue |-> call.output_hue, reduced |-> TRUE,
                   ret |-> argb, ret_hct |-> Hct_from_int(argb)]
    /\ pc' = "done"

NextHarmonize ==
    \/ CallHarmonize
    \/ HctSearchJ
    \/ HctFound
    \/ HctSearchChroma
    \/ HctFinish
    \/ Return

\* Blend.harmonize with the search of Hct.from_hct
SpecHarmonize == Init /\ [][NextHarmonize]_vars

\* degree values: every multiple of 45 within MaxTurns turns of 0, two
\* values next to 0 and two between the multiples
Angles ==
    {Dec(45 * i, 0) : i \in (-8 * MaxTurns)..(8 * MaxTurns)}
        \cup {Dec(-1, -20), Dec(1, -20), Dec(1805, -1), Dec(-3595, -1)}

\* integer degree values within MaxTurns turns of 0
IntAngles == (-360 * MaxTurns - 1)..(360 * MaxTurns + 1)

\* the arguments of clamp_int
ClampInts == -1..MaxClamp

\* the arguments of clamp_double
ClampDoubles == {Dec(-5, -1), Zero, Dec(15, -1), Dec(1, 30)}

CallDifferenceDegrees ==
    /\ pc = "idle"
    /\ \E a \in Angles, b \in Angles :
          call' = [fn |-> "difference_degrees", a |-> a, b |-> b,
                   ret |-> difference_degrees(a, b)]
    /\ pc' = "done"

CallSanitizeDegreesInt ==
    /\ pc = "idle"
    /\ \E degrees \in IntAngles :
          call' = [fn |-> "sanitize_degrees_int", degrees |-> degrees,
                   ret |-> sanitize_degrees_int(degrees)]
    /\ pc' = "done"

CallSanitizeDegreesDouble ==
    /\ pc = "idle"
    /\ \E degrees \in Angles :
          call' = [fn |-> "sanitize_degrees_double", degrees |-> degrees,
                   ret |-> sanitize_degrees_double(degrees)]
    /\ pc' = "done"

\* clamp_int has no raise and no assert: every call returns
CallClampInt ==
    /\ pc = "idle"
    /\ \E min \in ClampInts, max \in ClampInts, input \in ClampInts :
          call' = [fn |-> "clamp_int", min |-> min, max |-> max, input |-> input,
                   raised |-> FALSE, ret |-> clamp_int(min, max, input)]
    /\ pc' = "done"

\* clamp_double has no raise and no assert: every call returns
CallClampDouble ==
    /\ pc = "idle"
    /\ \E min \in ClampDoubles, max \in ClampDoubles, input \in ClampDoubles :
          call' = [fn |-> "clamp_double", min |-> min, max |-> max, input |-> input,
                   raised |-> FALSE, ret |-> clamp_double(min, max, input)]
    /\ pc' = "done"

NextMath ==
    \/ CallDifferenceDegrees
    \/ CallSanitizeDegreesInt
    \/ CallSanitizeDegreesDouble
    \/ CallClampInt
    \/ CallClampDouble
    \/ Return

\* the functions of math_utils
SpecMath == Init /\ [][NextMath]_vars

\* the characters of the short strings tried
HexAlphabet == {"#", "a", "g", "-"}

\* every string of at most MaxHexLen characters, and some longer ones
HexStrings ==
    UNION {[1..n -> HexAlphabet] : n \in 0..MaxHexLen}
        \cup {<<"#", "f", "f", "0", "0", "8", "0">>,
              <<"F", "F", "0", "0", "8", "0">>,
              <<"8", "0", "f", "f", "0", "0", "8", "0">>,
              <<"+", "1", "+", "2", "+", "3">>,
              <<"z", "z", "1", "1", "2", "2", "3", "3">>,
              <<"f", "f", "0", "0", "8", "g">>,
              <<"#", "f", "f", "0", "0", "8">>}

CallArgbFromHex ==
    /\ pc = "idle"
    /\ \E hex \in HexStrings :
          call' = [fn |-> "argb_from_hex", hex |-> hex, ret |-> argb_from_hex(hex)]
    /\ pc' = "done"

NextHex ==
    \/ CallArgbFromHex
    \/ Return

\* the parsing of hex strings
SpecHex == Init /\ [][NextHex]_vars

(***************************************************************************)
(* Two threads calling into the library.  While they run, pc = "threads"   *)
(* and call holds what the threads share, the module-level state and the   *)
(* Cam16 objects both hold references to, and each thread's own frame.     *)
(* A call takes two steps, one per read of shared state, and the other     *)
(* thread may run in between.                                              *)
(***************************************************************************)
Threads == {1, 2}

\* the module-level state after import
ModuleState ==
    [SRGB_TO_XYZ |-> SRGB_TO_XYZ, XYZ_TO_SRGB |-> XYZ_TO_SRGB,
     WHITE_POINT_D65 |-> WHITE_POINT_D65, DEFAULT |-> ViewingConditions_DEFAULT]

\* the Cam16 objects both threads call methods of and pass as arguments
SharedObjects == [a |-> Cam16_from_int(Red), b |-> Cam16_from_int(Teal)]

\* the colours given to xyz_from_argb
ThreadColors == {Red, Teal}

\* a thread between two calls
IdleFrame == [at |-> "idle"]

\* distance that keeps a scratch value in its receiver
Cam16_distance_leaves_scratch(shared, self, other) ==
    [shared EXCEPT !.objects[self].jstar = shared.objects[other].jstar]

\* what distance leaves of the shared state: it assigns no field of self or
\* other and no module-level name
Cam16_distance_leaves(shared, self, other) == shared

\* what to_int and viewed leave of the shared state: only locals are assigned
Cam16_to_int_leaves(shared, self) == shared

\* what xyz_from_argb leaves of the shared state: only locals are assigned
xyz_from_argb_leaves(shared) == shared

\* the shared state of call, with thread t's frame replaced by frame and
\* every other thread that is inside a call marked as overlapped
Stepped(shared, t, frame) ==
    [shared EXCEPT !.thread =
        [u \in Threads |->
            IF u = t THEN frame
            ELSE IF shared.thread[u].at \in {"idle", "done"} THEN shared.thread[u]
            ELSE [shared.thread[u] EXCEPT !.overlapped = TRUE]]]

StartThreads ==
    /\ pc = "idle"
    /\ pc' = "threads"
    /\ call' = [fn |-> "threads", module |-> ModuleState, objects |-> SharedObjects,
                thread |-> [t \in Threads |-> IdleFrame]]

\* dJ, dA, dB: the fields of self are read
Cam16DistanceReadSelf ==
    /\ pc = "threads"
    /\ \E t \in Threads : \E self \in DOMAIN call.objects : \E other \in DOMAIN call.objects :
          /\ call.thread[t].at = "idle"
          /\ call' = Stepped(call, t, [at |-> "Cam16.distance", fn |-> "Cam16.distance",
                                       self |-> self, other |-> other,
                                       read |-> call.objects[self], overlapped |-> FALSE])
    /\ UNCHANGED pc

\* dJ, dA, dB: the fields of other are read, and the distance returned
Cam16DistanceReturn ==
    /\ pc = "threads"
    /\ \E t \in Threads :
          /\ call.thread[t].at = "Cam16.distance"
          /\ \E ret \in {Cam16_distance(call.thread[t].read, call.objects[call.thread[t].other])} :
                call' = Stepped(Cam16_distance_leaves(call, call.thread[t].self, call.thread[t].other),
                                t, [call.thread[t] EXCEPT !.at = "done", !.read = ret])
    /\ UNCHANGED pc

\* to_int reads ViewingConditions.DEFAULT
Cam16ToIntReadDefault ==
    /\ pc = "threads"
    /\ \E t \in Threads : \E self \in DOMAIN call.objects :
          /\ call.thread[t].at = "idle"
          /\ call' = Stepped(call, t, [at |-> "Cam16.to_int", fn |-> "Cam16.to_int",
                                       self |-> self, read |-> call.module.DEFAULT,
                                       overlapped |-> FALSE])
    /\ UNCHANGED pc

\* viewed reads the fields of self and returns the colour
Cam16ToIntReturn ==
    /\ pc = "threads"
    /\ \E t \in Threads :
          /\ call.thread[t].at = "Cam16.to_int"
          /\ \E ret \in {Cam16_viewed(call.objects[call.thread[t].self], call.thread[t].read)} :
                call' = Stepped(Cam16_to_int_leaves(call, call.thread[t].self),
                                t, [call.thread[t] EXCEPT !.at = "done", !.read = ret])
    /\ UNCHANGED pc

\* xyz_from_argb linearizes the three channels
XyzFromArgbLinearize ==
    /\ pc = "threads"
    /\ \E t \in Threads : \E argb \in ThreadColors :
          /\ call.thread[t].at = "idle"
          /\ call' = Stepped(call, t, [at |-> "xyz_from_argb", fn |-> "xyz_from_argb",
                                       argb |-> argb,
                                       read |-> <<linearized(red_from_argb(argb)),
                                                  linearized(green_from_argb(argb)),
                                                  linearized(blue_from_argb(argb))>>,
                                       overlapped |-> FALSE])
    /\ UNCHANGED pc

\* xyz_from_argb reads SRGB_TO_XYZ and returns the product
XyzFromArgbReturn ==
    /\ pc = "threads"
    /\ \E t \in Threads :
          /\ call.thread[t].at = "xyz_from_argb"
          /\ \E ret \in {matrix_multiply(call.thread[t].read, call.module.SRGB_TO_XYZ)} :
                call' = Stepped(xyz_from_argb_leaves(call),
                                t, [call.thread[t] EXCEPT !.at = "done", !.read = ret])
    /\ UNCHANGED pc

\* the caller takes the result and goes on
ThreadReturn ==
    /\ pc = "threads"
    /\ \E t \in Threads :
          /\ call.thread[t].at = "done"
          /\ call' = Stepped(call, t, IdleFrame)
    /\ UNCHANGED pc

NextThreads ==
    \/ StartThreads
    \/ Cam16DistanceReadSelf
    \/ Cam16DistanceReturn
    \/ Cam16ToIntReadDefault
    \/ Cam16ToIntReturn
    \/ XyzFromArgbLinearize
    \/ XyzFromArgbReturn
    \/ ThreadReturn

\* two threads calling without coordination
SpecThreads == Init /\ [][NextThreads]_vars

\* the row vectors tried: every vector of integers up to MaxEntry
Rows == {<<FromInt(a), FromInt(b), FromInt(c)>> : a \in 0..MaxEntry, b \in 0..MaxEntry, c \in 0..MaxEntry}

\* the matrices tried: the two of color_utils, the identity, and one with
\* integer entries that is not symmetric
Matrices ==
    {SRGB_TO_XYZ, XYZ_TO_SRGB,
     << <<One, Zero, Zero>>, <<Zero, One, Zero>>, <<Zero, Zero, One>> >>,
     << <<One, FromInt(2), FromInt(3)>>, <<Zero, One, FromInt(4)>>, <<Zero, Zero, One>> >>}

\* the same product asked of both packages
CallMatrixMultiplyBoth ==
    /\ pc = "idle"
    /\ \E row \in Rows : \E matrix \in Matrices :
          call' = [fn |-> "matrix_multiply/matrixMultiply", row |-> row, matrix |-> matrix,
                   ret |-> matrix_multiply(row, matrix),
                   camel |-> matrixMultiply(row, matrix)]
    /\ pc' = "done"

\* the same colour converted by both packages
CallXyzFromArgbBoth ==
    /\ pc = "idle"
    /\ \E c \in CamColors :
          call' = [fn |-> "xyz_from_argb/xyzFromArgb", argb |-> c,
                   ret |-> xyz_from_argb(c), camel |-> xyzFromArgb(c)]
    /\ pc' = "done"

\* the tone of the same colour asked of both packages
CallLstarFromArgbBoth ==
    /\ pc = "idle"
    /\ \E c \in CamColors :
          call' = [fn |-> "lstar_from_argb/lstarFromArgb", argb |-> c,
                   ret |-> lstar_from_argb(c), camel |-> lstarFromArgb(c)]
    /\ pc' = "done"

NextVariants ==
    \/ CallMatrixMultiplyBoth
    \/ CallXyzFromArgbBoth
    \/ CallLstarFromArgbBoth
    \/ Return

\* the two packages side by side
SpecVariants == Init /\ [][NextVariants]_vars

\* the channel values of the colours formatted: one and two hex digits
HexChannels == {0, 10, 171, 255}

\* the colours formatted, opaque and not
HexColors ==
    {Word(a * 256 + r, g * 256 + b) :
        a \in {0, 128, 255}, r \in HexChannels, g \in HexChannels, b \in HexChannels}

CallHexFromArgb ==
    /\ pc = "idle"
    /\ \E c \in HexColors :
          call' = [fn |-> "hex_from_argb", argb |-> c, ret |-> hex_from_argb(c)]
    /\ pc' = "done"

\* the string that hex_from_argb returned is parsed
CallArgbFromHexBack ==
    /\ pc = "done" /\ call.fn = "hex_from_argb"
    /\ call' = [fn |-> "argb_from_hex", hex |-> call.ret, of |-> call.argb,
                ret |-> argb_from_hex(call.ret)]
    /\ pc' = "done"

NextHexRoundTrip ==
    \/ CallHexFromArgb
    \/ CallArgbFromHexBack
    \/ Return

\* formatting a colour and parsing it back
SpecHexRoundTrip == Init /\ [][NextHexRoundTrip]_vars

Next ==
    \/ NextPack
    \/ NextXyz
    \/ NextCam
    \/ NextHue
    \/ NextUcs
    \/ NextHarmonize
    \/ NextMath
    \/ NextHex
    \/ NextThreads
    \/ NextVariants
    \/ NextHexRoundTrip

\* every modelled call
Spec == Init /\ [][Next]_vars

(***************************************************************************)
(* Properties of the packing functions.                                    *)
(***************************************************************************)
\* C9: for red, green, blue in 0..255, argb_from_rgb returns the word
\* 0xFF000000 + red*65536 + green*256 + blue (a non-negative 32-bit value),
\* the four unpacking functions applied to it return 255, red, green and
\* blue, and the camelCase functions return the same values.
ArgbFromRgbLayout ==
    /\ call.fn \in {"argb_from_rgb", "argbFromRgb"} =>
          /\ call.ret = <<65280 + call.red, call.green * 256 + call.blue>>
          /\ call.ret[1] \in 0..65535 /\ call.ret[2] \in 0..65535
    /\ call.fn \in {"alpha_from_argb", "alphaFromArgb"} => call.ret = 255
    /\ call.fn \in {"red_from_argb", "redFromArgb"} => call.ret = call.of.red
    /\ call.fn \in {"green_from_argb", "greenFromArgb"} => call.ret = call.of.green
    /\ call.fn \in {"blue_from_argb", "blueFromArgb"} => call.ret = call.of.blue

\* argb_from_rgb(255, 255, 255) has returned 0xFFFFFFFF
ArgbFromRgbWhite ==
    /\ pc = "done" /\ call.fn = "argb_from_rgb"
    /\ call.red = 255 /\ call.green = 255 /\ call.blue = 255
    /\ call.ret = White

(***************************************************************************)
(* Properties of the conversions between ARGB, XYZ and L*.                 *)
(***************************************************************************)
\* C1: for every opaque ARGB value c, argb_from_xyz applied to the three
\* components returned by xyz_from_argb(c) returns exactly c.
XyzRoundTripExact ==
    (call.fn = "argb_from_xyz" /\ call.of # <<>>) => call.ret = call.of

\* C2: lstar_from_argb(c) lies in [0, 100] for every ARGB value c, is about
\* 100 for white 0xFFFFFFFF and is 0 for black 0xFF000000.
LstarInToneRange ==
    call.fn = "lstar_from_argb" =>
        /\ Le(Zero, call.ret) /\ Le(call.ret, Dec(100, 0))
        /\ call.argb = White => Near(call.ret, Dec(100, 0), Dec(1, -2))
        /\ call.argb = Black => call.ret = Zero

WithinOne(a, b) == a - b \in -1..1

\* C3: for every ARGB value c, Cam16.from_int(c).to_int() equals c within
\* at most 1 unit per 8-bit channel, under the DEFAULT viewing conditions.
Cam16RoundTripWithinOne ==
    call.fn = "Cam16.to_int" =>
        /\ alpha_from_argb(call.ret) = alpha_from_argb(call.of)
        /\ WithinOne(red_from_argb(call.ret), red_from_argb(call.of))
        /\ WithinOne(green_from_argb(call.ret), green_from_argb(call.of))
        /\ WithinOne(blue_from_argb(call.ret), blue_from_argb(call.of))

\* to_int has returned for the Cam16 of red, 0xFFFF0000
Cam16RoundTripOfRed ==
    /\ pc = "done" /\ call.fn = "Cam16.to_int"
    /\ call.of = Red /\ call.ret = Red

\* C8: x.distance(y) is 1.41 * sqrt(dJ^2 + da^2 + db^2)^0.63 of the stored
\* jstar, astar and bstar: it equals y.distance(x), is never negative, and
\* is 0 when y is x.
Cam16DistanceMetric ==
    call.fn = "Cam16.distance" =>
        /\ call.ret = Cam16_distance(call.other, call.self)
        /\ Le(Zero, call.ret)
        /\ call.other = call.self => call.ret = Zero
        /\ call.ret =
              Mul(Dec(141, -2),
                  Pow(Sqrt(Add(Add(Mul(Sub(call.self.jstar, call.other.jstar),
                                       Sub(call.self.jstar, call.other.jstar)),
                                   Mul(Sub(call.self.astar, call.other.astar),
                                       Sub(call.self.astar, call.other.astar))),
                               Mul(Sub(call.self.bstar, call.other.bstar),
                                   Sub(call.self.bstar, call.other.bstar)))),
                      Dec(63, -2)))

\* distance has returned a positive value for two different colours
Cam16DistanceOfTwo ==
    /\ pc = "done" /\ call.fn = "Cam16.distance"
    /\ call.other # call.self
    /\ Lt(Zero, call.ret)

(***************************************************************************)
(* Properties of Blend.                                                    *)
(***************************************************************************)
\* the r of harmonize: min(0.5 * difference_degrees(h1, h2), 15)
HarmonizeRotation(h1, h2) == FMin(Mul(Half, difference_degrees(h1, h2)), Dec(15, 0))

\* C4: the hue handed to the solver by Blend.harmonize is
\* sanitize_degrees_double(h1 + r*d), r = min(0.5*difference_degrees(h1,h2), 15),
\* d = rotation_direction(h1,h2); it lies in [0, 360), at angular distance
\* exactly r <= 15 from h1 and difference_degrees(h1,h2) - r from h2.
HarmonizeHueTowardSource ==
    call.fn = "Blend.harmonize.output_hue" =>
        /\ call.ret = sanitize_degrees_double(
               Add(call.from_hue, Mul(HarmonizeRotation(call.from_hue, call.to_hue),
                                      Blend_rotation_direction(call.from_hue, call.to_hue))))
        /\ Le(Zero, call.ret) /\ Lt(call.ret, Dec(360, 0))
        /\ Le(HarmonizeRotation(call.from_hue, call.to_hue), Dec(15, 0))
        /\ difference_degrees(call.ret, call.from_hue) =
               HarmonizeRotation(call.from_hue, call.to_hue)
        /\ difference_degrees(call.ret, call.to_hue) =
               Sub(difference_degrees(call.from_hue, call.to_hue),
                   HarmonizeRotation(call.from_hue, call.to_hue))

\* the hue 345 has been rotated by 15 degrees across 360 toward the hue 15
HarmonizeHueAcrossZero ==
    /\ pc = "done" /\ call.fn = "Blend.harmonize.output_hue"
    /\ call.from_hue = Dec(345, 0) /\ call.to_hue = Dec(15, 0)
    /\ call.ret = Zero

\* from + (to - from) * amount
Interpolated(from, to, amount) == Add(from, Mul(Sub(to, from), amount))

\* C7: Blend.cam16_ucs hands to Cam16.from_ucs the point whose J*, a* and b*
\* are each interpolated between the two colours' own J*, a* and b*.
Cam16UcsInterpolatesEach ==
    call.fn = "Blend.cam16_ucs" =>
        /\ call.ucs.jstar = Interpolated(call.from_cam.jstar, call.to_cam.jstar, call.amount)
        /\ call.ucs.astar = Interpolated(call.from_cam.astar, call.to_cam.astar, call.amount)
        /\ call.ucs.bstar = Interpolated(call.from_cam.bstar, call.to_cam.bstar, call.amount)

DifferenceDegreesSymmetric ==
    call.fn = "difference_degrees" =>
        /\ call.ret = difference_degrees(call.b, call.a)
        /\ call.a = call.b => call.ret = Zero

\* difference_degrees(45, -90) has returned 135
DifferenceDegreesOfTwo ==
    /\ pc = "done" /\ call.fn = "difference_degrees"
    /\ call.a = Dec(45, 0) /\ call.b = Dec(-90, 0)
    /\ call.ret = Dec(135, 0)

\* the shorter of the two arcs between the angles a and b
ShortestArc(d) == FMin(d, Sub(Dec(360, 0), d))

\* C12: for every pair of numbers a and b, difference_degrees(a, b) is the
\* shortest angular distance between the two angles and lies in [0, 180].
DifferenceDegreesShortestArc ==
    call.fn = "difference_degrees" =>
        /\ Le(Zero, call.ret) /\ Le(call.ret, Dec(180, 0))
        /\ Near(call.ret, ShortestArc(FMod(Sub(call.a, call.b), 360)), Dec(1, -6))

\* C13: sanitize_degrees_int and sanitize_degrees_double return r with
\* 0 <= r < 360, congruent to the input modulo 360, and sanitizing r again
\* returns r.
SanitizeDegreesInRange ==
    /\ call.fn = "sanitize_degrees_int" =>
          /\ call.ret \in 0..359
          /\ ((call.ret - call.degrees) % 360) = 0
          /\ sanitize_degrees_int(call.ret) = call.ret
    /\ call.fn = "sanitize_degrees_double" =>
          /\ Le(Zero, call.ret) /\ Lt(call.ret, Dec(360, 0))
          /\ Near(ShortestArc(FMod(Sub(call.ret, call.degrees), 360)), Zero, Dec(1, -6))
          /\ sanitize_degrees_double(call.ret) = call.ret

\* C14: clamp_int and clamp_double signal an error on every call with
\* min > max.
ClampRaisesOnInvertedBounds ==
    /\ (call.fn = "clamp_int" /\ call.min > call.max) => call.raised
    /\ (call.fn = "clamp_double" /\ Lt(call.max, call.min)) => call.raised

\* C15: no sequence of Cam16 operations started from an ARGB colour ends in
\* a division by zero: Cam16.from_ucs on the jstar, astar and bstar of
\* Cam16.from_int(c) returns an object.
Cam16FromUcsNeverRaises ==
    call.fn = "Cam16.from_ucs" => ~IsRaised(call.ret)

\* the staged values of Cam16.viewed up to a and b
Cam16_viewed_upto_ab(self) ==
    Cam16_viewed_ab(Cam16_viewed_gamma(Cam16_viewed_t(
        Cam16_viewed_alpha(self, ViewingConditions_DEFAULT))))

\* alpha, t, a and b of viewed are as C18 says for the object self
ViewedAlphaAsStated(self, s) ==
    IF IsZero(self.chroma) \/ IsZero(self.j)
    THEN s.alpha = Zero /\ s.t = Zero /\ s.a = Zero /\ s.b = Zero
    ELSE s.alpha = Div(self.chroma, Sqrt(Div(self.j, Dec(100, 0))))

\* an ARGB word with alpha 255
IsArgb(v) ==
    /\ DOMAIN v = 1..2
    /\ v[1] \in 65280..65535
    /\ v[2] \in 0..65535

\* C18: Cam16.viewed sets alpha to 0 exactly when chroma == 0 or j == 0
\* (then t = 0 and a = b = 0) and returns an ARGB value; otherwise
\* alpha = chroma / sqrt(j / 100).
Cam16ViewedAlpha ==
    call.fn = "Cam16.viewed" =>
        /\ ViewedAlphaAsStated(
               Cam16(call.hue, call.chroma, call.j, Zero, Zero, Zero, Zero, Zero, Zero),
               Cam16_viewed_upto_ab(
                   Cam16(call.hue, call.chroma, call.j, Zero, Zero, Zero, Zero, Zero, Zero)))
        /\ IsArgb(call.ret)

\* viewed has returned for an object with j = 0 and chroma 30
Cam16ViewedOfZeroJ ==
    /\ pc = "done" /\ call.fn = "Cam16.viewed"
    /\ call.j = Zero /\ call.chroma = Dec(30, 0)
    /\ IsArgb(call.ret)

\* C19: every Cam16 value returned by a construction function, for any
\* arguments, has hue in [0, 360) and chroma >= 0.
Cam16HueAndChromaInRange ==
    (call.fn \in {"Cam16.from_int", "Cam16.fromJch", "Cam16.from_ucs"}
        /\ ~IsRaised(call.ret)) =>
        /\ Le(Zero, call.ret.hue) /\ Lt(call.ret.hue, Dec(360, 0))
        /\ Le(Zero, call.ret.chroma)

\* the tolerance of a round trip through CAM16-UCS
UcsTolerance == Dec(1, -4)

\* C20: for every Cam16 k of Cam16.from_int with J > 0,
\* from_ucs(k.jstar, k.astar, k.bstar) has the J, chroma and hue of k up to
\* floating tolerance.
Cam16FromUcsInverts ==
    (call.fn = "Cam16.from_ucs" /\ Lt(Zero, call.of.j)) =>
        /\ ~IsRaised(call.ret)
        /\ Near(call.ret.j, call.of.j, UcsTolerance)
        /\ Near(call.ret.chroma, call.of.chroma, UcsTolerance)
        /\ Near(call.ret.hue, call.of.hue, UcsTolerance)

\* from_ucs has returned for the Cam16 of blue, whose hue is beyond 180
Cam16FromUcsOfBlue ==
    /\ pc = "done" /\ call.fn = "Cam16.from_ucs"
    /\ call.argb = Word(65280, 255)
    /\ ~IsRaised(call.ret)
    /\ Lt(Dec(180, 0), call.ret.hue)

(***************************************************************************)
(* Properties of string_utils.                                             *)
(***************************************************************************)
\* exactly 3, 6 or 8 hexadecimal digits
IsHexDigits(s) == Len(s) \in {3, 6, 8} /\ \A i \in 1..Len(s) : IsHexDigit(s[i])

\* an optional single leading '#' followed by exactly 3, 6 or 8 hex digits
WellFormedHex(s) ==
    \/ IsHexDigits(s)
    \/ Len(s) > 0 /\ s[1] = "#" /\ IsHexDigits(Tail(s))

\* C17: argb_from_hex fails with an error, and never returns an ARGB value,
\* for every string that is not an optional single leading '#' followed by
\* exactly 3, 6 or 8 hexadecimal digits.
ArgbFromHexRejectsMalformed ==
    (call.fn = "argb_from_hex" /\ ~WellFormedHex(call.hex)) => IsRaised(call.ret)

(***************************************************************************)
(* Properties of calls made by two threads.                                *)
(***************************************************************************)
\* the result of the call of a frame when no other call runs
Alone(frame) ==
    IF frame.fn = "Cam16.distance"
    THEN Cam16_distance(SharedObjects[frame.self], SharedObjects[frame.other])
    ELSE IF frame.fn = "Cam16.to_int"
    THEN Cam16_to_int(SharedObjects[frame.self])
    ELSE xyz_from_argb(frame.argb)

\* C16: no call writes to the module-level state (SRGB_TO_XYZ, XYZ_TO_SRGB,
\* WHITE_POINT_D65, ViewingConditions.DEFAULT) or to a field of a Cam16
\* receiver or argument, so whatever the interleaving of the calls of two
\* threads, each call returns what it returns when run alone.
ThreadsDoNotInterfere ==
    pc = "threads" =>
        /\ call.module = ModuleState
        /\ call.objects = SharedObjects
        /\ \A t \in Threads :
              call.thread[t].at = "done" => call.thread[t].read = Alone(call.thread[t])

\* a distance call returned while the other thread was inside a call on
\* the same receiver, and steps of that thread ran during the call
ThreadsOverlapOnReceiver ==
    /\ pc = "threads"
    /\ call.thread[1].at = "done"
    /\ call.thread[1].fn = "Cam16.distance"
    /\ call.thread[1].overlapped
    /\ call.thread[2].at \in {"Cam16.distance", "Cam16.to_int"}
    /\ call.thread[2].self = call.thread[1].self

(***************************************************************************)
(* Properties of the two packages side by side.                            *)
(***************************************************************************)
\* the product as stated: component i is m[i][0]*row[0] + m[i][1]*row[1] + m[i][2]*row[2]
MatrixTimesVector(row, m) ==
    [i \in 1..3 |-> Add(Add(Mul(m[i][1], row[1]), Mul(m[i][2], row[2])), Mul(m[i][3], row[3]))]

\* C21: matrix_multiply of material_color_utilities and matrixMultiply of
\* material_color_utilities_python both return the matrix times the vector,
\* and so xyz_from_argb equals xyzFromArgb and lstar_from_argb equals
\* lstarFromArgb for every colour.
VariantsAgree ==
    /\ call.fn = "matrix_multiply/matrixMultiply" =>
          /\ call.ret = MatrixTimesVector(call.row, call.matrix)
          /\ call.camel = MatrixTimesVector(call.row, call.matrix)
    /\ call.fn \in {"xyz_from_argb/xyzFromArgb", "lstar_from_argb/lstarFromArgb"} =>
          call.ret = call.camel

\* the value of a two-character string of lowercase hex digits
LowerHexValue(s) ==
    16 * ((CHOOSE i \in 1..16 : HexLower[i] = s[1]) - 1)
        + (CHOOSE i \in 1..16 : HexLower[i] = s[2]) - 1

\* C22: hex_from_argb(c) is '#' followed by exactly six lowercase hex
\* digits that encode the red, green and blue bytes of c, and
\* argb_from_hex(hex_from_argb(c)) is c with its alpha byte set to 0xFF.
HexRoundTrip ==
    /\ call.fn = "hex_from_argb" =>
          /\ Len(call.ret) = 7
          /\ call.ret[1] = "#"
          /\ \A i \in 2..7 : \E k \in 1..16 : HexLower[k] = call.ret[i]
          /\ LowerHexValue(SubSeq(call.ret, 2, 3)) = red_from_argb(call.argb)
          /\ LowerHexValue(SubSeq(call.ret, 4, 5)) = green_from_argb(call.argb)
          /\ LowerHexValue(SubSeq(call.ret, 6, 7)) = blue_from_argb(call.argb)
    /\ (call.fn = "argb_from_hex" /\ "of" \in DOMAIN call) =>
          call.ret = [argb |-> Word(255 * 256 + (call.of[1] % 256), call.of[2])]

\* a colour that is not opaque and has a channel of one hex digit went
\* through both functions
HexRoundTripOfTranslucent ==
    /\ call.fn = "argb_from_hex"
    /\ "of" \in DOMAIN call
    /\ call.of = Word(128 * 256 + 10, 171 * 256)
    /\ call.hex = <<"#", "0", "a", "a", "b", "0", "0">>
    /\ call.ret = [argb |-> Word(255 * 256 + 10, 171 * 256)]

====
